---- MODULE Spec2Model ----
(***************************************************************************)
(* Compliance evaluation pipeline of the travel-compliance agent:          *)
(* the route checker (agents/route_agent.py), the timing and identity      *)
(* checkers (agents/timing_agent.py, agents/identity_agent.py) and the     *)
(* orchestrator / report aggregator (agents/orchestrator.py).              *)
(*                                                                         *)
(* Python values are represented as follows.                               *)
(*  - a dict is a TLA+ function whose DOMAIN is the set of keys present;   *)
(*  - a list is a sequence;                                                *)
(*  - a value whose Python type varies (a parsed JSON answer, an Optional  *)
(*    field) is a tagged record: JDict, JList, JStr, JInt, JNone;          *)
(*  - a timestamp text is the sequence of its pieces, where the pieces     *)
(*    "T" and " " are the characters str.split looks at;                   *)
(*  - an f-string is a Msg record: the template and its format arguments;  *)
(*  - a call either returns (Return) or raises (Raise).                    *)
(***************************************************************************)
EXTENDS Integers, Sequences, FiniteSets, TLC

\* ------------------------------------------------------------------------
\* Bounds of the model
\* ------------------------------------------------------------------------
MaxReservations == 2
MaxSegments == 2
MaxChunks == 2
MaxTicks == 2
MaxCalls == 2
MaxPassengers == 2
MaxRoutes == 2

\* ------------------------------------------------------------------------
\* Python value helpers
\* ------------------------------------------------------------------------
JDict(m) == [type |-> "dict", map |-> m]
JList(xs) == [type |-> "list", items |-> xs]
JStr(s) == [type |-> "str", str |-> s]
JInt(n) == [type |-> "int", int |-> n]
JBool(b) == [type |-> "bool", bool |-> b]
JNone == [type |-> "NoneType"]

Msg(template, nums, strs) == [template |-> template, nums |-> nums, strs |-> strs]

Return(v) == [raised |-> FALSE, value |-> v]
Raise(e) == [raised |-> TRUE, error |-> e]

\* dict.get(key, default)
Get(d, key, default) == IF key \in DOMAIN d THEN d[key] ELSE default

\* a or b, for strings: the empty string is falsy
OrStr(a, b) == IF a # "" THEN a ELSE b

\* d[key] = value on a dict (adds the key when it is absent)
SetKey(d, key, value) == (key :> value) @@ d

\* str.upper() on the airport codes of the model
Upper(s) ==
  CASE s = "ayt" -> "AYT"
    [] s = "fra" -> "FRA"
    [] s = "ist" -> "IST"
    [] OTHER -> s

\* index of the first TRUE of a sequence of flags, 0 when there is none
\* (a for loop that stops at its first match)
FirstTrue(flags) ==
  IF \E n \in 1..Len(flags) : flags[n]
  THEN CHOOSE n \in 1..Len(flags) : flags[n] /\ \A j \in 1..(n - 1) : ~flags[j]
  ELSE 0

\* "T" in s
HasT(s) == \E i \in 1..Len(s) : s[i] = "T"

\* s.split("T")[0]: the text before the first "T" (s itself without a "T")
SplitT0(s) ==
  LET k == FirstTrue([n \in 1..Len(s) |-> s[n] = "T"])
  IN IF k = 0 THEN s ELSE SubSeq(s, 1, k - 1)

\* s.split(): the maximal runs of non-blank pieces, in order
RECURSIVE SplitWhitespace(_)
SplitWhitespace(s) ==
  IF s = <<>> THEN <<>>
  ELSE IF Head(s) = " " THEN SplitWhitespace(Tail(s))
  ELSE LET k == FirstTrue([n \in 1..Len(s) |-> s[n] = " "])
       IN IF k = 0 THEN <<s>>
          ELSE <<SubSeq(s, 1, k - 1)>> \o SplitWhitespace(SubSeq(s, k, Len(s)))

\* route_agent.py:287-291: raises IndexError when split() yields no piece
travel_date_of(departure_date) ==
  IF HasT(departure_date) THEN Return(SplitT0(departure_date))
  ELSE LET parts == SplitWhitespace(departure_date)
       IN IF parts = <<>> THEN Raise("IndexError") ELSE Return(parts[1])

\* ------------------------------------------------------------------------
\* Route data source
\* ------------------------------------------------------------------------
\* A dataset in the shape of the airline route data: airport -> routes.
RouteData ==
  [AYT |-> [routes |-> <<
              [iata |-> "IST", km |-> 480, min |-> 80,
               carriers |-> <<[iata |-> "TK", name |-> "Turkish Airlines"]>>],
              [iata |-> "FRA", km |-> 2300, min |-> 215,
               carriers |-> <<[iata |-> "LH", name |-> "Lufthansa"],
                              [iata |-> "XQ", name |-> "SunExpress"]>>] >>],
   FRA |-> [routes |-> <<
              [iata |-> "AYT", km |-> 2300, min |-> 215,
               carriers |-> <<[iata |-> "XQ", name |-> "SunExpress"]>>] >>],
   IST |-> [routes |-> <<
              [iata |-> "FRA", km |-> 1860, min |-> 190,
               carriers |-> <<[iata |-> "TK", name |-> "Turkish Airlines"],
                              [iata |-> "LH", name |-> "Lufthansa"]>>] >>]]

\* What one call of fetch_airline_route_data can give back:
\*  data        the dataset (from the cache or from the network);
\*  error       the typed error of a failed request or an unparseable body;
\*  malformed   a mapping whose entries do not have the expected shape;
\*  not_mapping a body that parses to a JSON scalar.
FetchOutcomes ==
  { [kind |-> "data", data |-> RouteData],
    [kind |-> "error", error |-> "Failed to fetch airline route data"],
    [kind |-> "error", error |-> "Failed to parse airline route data"],
    [kind |-> "malformed", keys |-> {"AYT", "FRA", "IST"}],
    [kind |-> "not_mapping"] }

RouteText(origin, destination) == <<origin, "->", destination>>

IsXQ(carrier) == Get(carrier, "iata", "") = "XQ"

\* Mutant: any route entry to `target` that carries XQ counts.
SunExpressRouteAnyEntry(routes, target) ==
  LET k == FirstTrue([n \in 1..Len(routes) |->
                        /\ Get(routes[n], "iata", "") = target
                        /\ \E c \in 1..Len(Get(routes[n], "carriers", <<>>)) :
                             IsXQ(Get(routes[n], "carriers", <<>>)[c])])
  IN IF k = 0 THEN [found |-> FALSE]
     ELSE LET carriers == Get(routes[k], "carriers", <<>>)
              c == FirstTrue([n \in 1..Len(carriers) |-> IsXQ(carriers[n])])
          IN [found |-> TRUE,
              detail |-> [distance_km |-> Get(routes[k], "km", 0),
                          flight_time_min |-> Get(routes[k], "min", 0),
                          carrier_name |-> Get(carriers[c], "name", "SunExpress")]]

\* route_agent.py:194-209 and 213-222: the first route entry to `target`
\* decides; within it the first XQ carrier is reported.
SunExpressRoute(routes, target) ==
  LET k == FirstTrue([n \in 1..Len(routes) |-> Get(routes[n], "iata", "") = target])
  IN IF k = 0 THEN [found |-> FALSE]
     ELSE LET carriers == Get(routes[k], "carriers", <<>>)
              c == FirstTrue([n \in 1..Len(carriers) |-> IsXQ(carriers[n])])
          IN IF c = 0 THEN [found |-> FALSE]
             ELSE [found |-> TRUE,
                   detail |-> [distance_km |-> Get(routes[k], "km", 0),
                               flight_time_min |-> Get(routes[k], "min", 0),
                               carrier_name |-> Get(carriers[c], "name", "SunExpress")]]

\* route_agent.py:140-244
check_sunexpress_route_availability(origin_airport, destination_airport, travel_date, fetched) ==
  LET route == RouteText(origin_airport, destination_airport)
      origin_upper == Upper(origin_airport)
      destination_upper == Upper(destination_airport)
  IN CASE fetched.kind = "not_mapping" -> Raise("TypeError")
       [] fetched.kind = "error" ->
            Return([sunexpress_available |-> FALSE, route |-> route,
                    travel_date |-> travel_date, origin_served |-> FALSE,
                    destination_served |-> FALSE, api_success |-> FALSE,
                    api_error |-> Msg(fetched.error, <<>>, <<>>)])
       [] fetched.kind = "malformed" ->
            IF origin_upper \notin fetched.keys
            THEN Return([sunexpress_available |-> FALSE, route |-> route,
                         travel_date |-> travel_date, origin_served |-> FALSE,
                         destination_served |-> FALSE,
                         route_explanation |-> Msg("Origin airport {} not found in route data",
                                                   <<>>, <<origin_airport>>),
                         api_success |-> TRUE])
            ELSE Return([sunexpress_available |-> FALSE, route |-> route,
                         travel_date |-> travel_date, origin_served |-> FALSE,
                         destination_served |-> FALSE, api_success |-> FALSE,
                         api_error |-> Msg("Error processing route data: {}",
                                           <<>>, <<"AttributeError">>)])
       [] fetched.kind = "data" ->
            LET route_data == fetched.data
            IN IF origin_upper \notin DOMAIN route_data
               THEN Return([sunexpress_available |-> FALSE, route |-> route,
                            travel_date |-> travel_date, origin_served |-> FALSE,
                            destination_served |-> FALSE,
                            route_explanation |-> Msg("Origin airport {} not found in route data",
                                                      <<>>, <<origin_airport>>),
                            api_success |-> TRUE])
               ELSE LET forward == SunExpressRoute(Get(route_data[origin_upper], "routes", <<>>),
                                                   destination_upper)
                        reverse == IF destination_upper \in DOMAIN route_data
                                   THEN SunExpressRoute(
                                          Get(route_data[destination_upper], "routes", <<>>),
                                          origin_upper)
                                   ELSE [found |-> FALSE]
                        sunexpress_available == forward.found
                    IN Return([sunexpress_available |-> sunexpress_available,
                               route |-> route,
                               travel_date |-> travel_date,
                               origin_served |-> sunexpress_available,
                               destination_served |-> reverse.found,
                               route_explanation |-> Msg("SunExpress serves {} -> {}: {}",
                                                         <<>>,
                                                         <<origin_airport, destination_airport,
                                                           IF sunexpress_available
                                                           THEN "True" ELSE "False">>),
                               route_details |-> IF forward.found THEN <<forward.detail>>
                                                 ELSE <<>>,
                               api_success |-> TRUE])

\* ------------------------------------------------------------------------
\* Route checker
\* ------------------------------------------------------------------------
DateT == <<"2025-06-24", "T", "12:35:00">>
DateSpace == <<"2025-06-24", " ", "12:35:00">>
DateEmpty == <<>>

\* Flight segments as input documents give them: either naming convention,
\* any field possibly missing.
SegXQ ==
  [flightNumber |-> "XQ141", airlineCode |-> "XQ", airlineName |-> "SunExpress",
   departureAirport |-> "AYT", arrivalAirport |-> "FRA", departureDate |-> DateT]
SegTK ==
  [flightNumber |-> "TK123", airlineCode |-> "TK", airlineName |-> "Turkish Airlines",
   departureAirport |-> "AYT", arrivalAirport |-> "FRA", departureDate |-> DateT]
SegLHAlt ==
  [flightNo |-> "LH456", airlineCompanyCode |-> "LH", airlineCompanyName |-> "Lufthansa",
   departureAirPortCode |-> "ayt", arrivalAirPortCode |-> "fra", departureDate |-> DateSpace]
SegTKUnserved ==
  [flightNo |-> "TK789", airlineCompanyCode |-> "TK", airlineCompanyName |-> "Turkish Airlines",
   departureAirPortCode |-> "IST", arrivalAirPortCode |-> "FRA", departureDate |-> DateT]
SegNoCodes ==
  [departureDate |-> DateT]
SegNoDate ==
  [flightNumber |-> "PC900", airlineCode |-> "PC", airlineName |-> "Pegasus",
   departureAirport |-> "AYT", arrivalAirport |-> "FRA"]

SegmentPool == {SegXQ, SegTK, SegLHAlt, SegTKUnserved, SegNoCodes, SegNoDate}

FlightLists == UNION {[1..n -> SegmentPool] : n \in 0..MaxSegments}

ReservationPool ==
  {[bookingReference |-> "BR-1", flights |-> fs] : fs \in FlightLists}
    \cup {[bookingId |-> "TIC-457855", flights |-> fs] : fs \in FlightLists}
    \cup {[bookingReference |-> "BR-2"]}

RECURSIVE SegmentCount(_)
SegmentCount(reservations) ==
  IF reservations = <<>> THEN 0
  ELSE Len(Get(Head(reservations), "flights", <<>>)) + SegmentCount(Tail(reservations))

ReservationLists ==
  {rs \in UNION {[1..n -> ReservationPool] : n \in 0..MaxReservations} :
     SegmentCount(rs) <= MaxSegments}

\* The segments in the order the two nested loops of
\* analyze_route_compliance_with_api visit them (route_agent.py:260-265).
RECURSIVE Segments(_)
Segments(reservations) ==
  IF reservations = <<>> THEN <<>>
  ELSE LET reservation == Head(reservations)
           flights == Get(reservation, "flights", <<>>)
           booking_ref == Get(reservation, "bookingReference", "")
       IN [i \in 1..Len(flights) |-> [booking_ref |-> booking_ref, flight |-> flights[i]]]
            \o Segments(Tail(reservations))

\* route_agent.py:267-280
airline_code_of(flight) ==
  OrStr(Get(flight, "airlineCode", ""), Get(flight, "airlineCompanyCode", ""))
airline_name_of(flight) ==
  OrStr(Get(flight, "airlineName", ""), Get(flight, "airlineCompanyName", ""))
flight_number_of(flight) ==
  OrStr(Get(flight, "flightNumber", ""), Get(flight, "flightNo", ""))
departure_airport_of(flight) ==
  OrStr(Get(flight, "departureAirport", ""), Get(flight, "departureAirPortCode", ""))
arrival_airport_of(flight) ==
  OrStr(Get(flight, "arrivalAirport", ""), Get(flight, "arrivalAirPortCode", ""))
departure_date_of(flight) == Get(flight, "departureDate", <<>>)

\* route_agent.py:282-284
IsSunExpressFlight(flight) == airline_code_of(flight) = "XQ"

\* route_agent.py:317-333
RouteViolation(booking_ref, flight, travel_date, availability) ==
  LET route_info == Get(availability, "route_details", <<>>)
      departure_airport == departure_airport_of(flight)
      arrival_airport == arrival_airport_of(flight)
  IN [flight_number |-> flight_number_of(flight),
      reason |-> Msg("SunExpress operates the route {} -> {}, but {} ({}) was used instead.",
                     <<>>,
                     <<departure_airport, arrival_airport,
                       airline_name_of(flight), airline_code_of(flight)>>),
      actual_airline |-> airline_code_of(flight),
      actual_airline_name |-> airline_name_of(flight),
      route |-> RouteText(departure_airport, arrival_airport),
      travel_date |-> travel_date,
      booking_reference |-> booking_ref,
      sunexpress_availability |->
        Get(availability, "route_explanation", Msg("SunExpress operates this route", <<>>, <<>>)),
      route_details |->
        IF route_info # <<>>
        THEN Msg("Distance: {}km, Flight time: {} minutes",
                 <<Get(route_info[1], "distance_km", 0), Get(route_info[1], "flight_time_min", 0)>>,
                 <<>>)
        ELSE Msg("SunExpress operates {} -> {} route", <<>>,
                 <<departure_airport, arrival_airport>>),
      policy_rule |-> "SunExpress route availability violation"]

\* route_agent.py:300-306
ApiError(flight, travel_date, availability) ==
  [route |-> RouteText(departure_airport_of(flight), arrival_airport_of(flight)),
   date |-> travel_date,
   error |-> Get(availability, "api_error", Msg("Unknown API error", <<>>, <<>>))]

\* Mutant: a failed lookup is taken for an answer.
LookupFailedIgnored(availability) == FALSE

\* route_agent.py:299
LookupFailed(availability) == ~Get(availability, "api_success", FALSE)

\* Mutant: the route counts as served only when XQ flies it both ways.
SunExpressOperatesBothWays(availability) ==
  availability["sunexpress_available"] /\ availability["destination_served"]

\* route_agent.py:310: availability["sunexpress_available"]
SunExpressOperates(availability) == availability["sunexpress_available"]

\* route_agent.py:260-333: the loop body applied to segments k.. of `segs`,
\* where fetches[k] is what the data source gives the lookup of segment k.
RECURSIVE AnalyzeLoop(_, _, _, _, _)
AnalyzeLoop(segs, fetches, k, violations, api_errors) ==
  IF k > Len(segs) THEN Return([violations |-> violations, api_errors |-> api_errors])
  ELSE LET flight == segs[k].flight
           booking_ref == segs[k].booking_ref
       IN IF IsSunExpressFlight(flight)
          THEN AnalyzeLoop(segs, fetches, k + 1, violations, api_errors)
          ELSE LET date == travel_date_of(departure_date_of(flight))
               IN IF date.raised THEN date
                  ELSE LET looked == check_sunexpress_route_availability(
                                       departure_airport_of(flight),
                                       arrival_airport_of(flight),
                                       date.value, fetches[k])
                       IN IF looked.raised THEN looked
                          ELSE IF LookupFailed(looked.value)
                          THEN AnalyzeLoop(segs, fetches, k + 1, violations,
                                           Append(api_errors,
                                                  ApiError(flight, date.value, looked.value)))
                          ELSE IF SunExpressOperates(looked.value)
                          THEN AnalyzeLoop(segs, fetches, k + 1,
                                           Append(violations,
                                                  RouteViolation(booking_ref, flight,
                                                                 date.value, looked.value)),
                                           api_errors)
                          ELSE AnalyzeLoop(segs, fetches, k + 1, violations, api_errors)

\* Mutant: data errors without a violation count as a pass.
RouteStatusErrorsPass(violations, api_errors) ==
  IF violations # <<>> THEN "NON_COMPLIANT" ELSE "COMPLIANT"

\* route_agent.py:335-349
RouteStatus(violations, api_errors) ==
  IF api_errors # <<>>
  THEN IF violations # <<>> THEN "NON_COMPLIANT" ELSE "UNKNOWN"
  ELSE IF violations # <<>> THEN "NON_COMPLIANT" ELSE "COMPLIANT"

\* route_agent.py:335-349
RouteMessage(violations, api_errors) ==
  IF api_errors # <<>>
  THEN IF violations # <<>>
       THEN Msg("Found {} SunExpress route compliance violation(s). Note: {} route(s) could not be checked due to data issues.",
                <<Len(violations), Len(api_errors)>>, <<>>)
       ELSE Msg("Could not complete route compliance check due to data issues on {} route(s).",
                <<Len(api_errors)>>, <<>>)
  ELSE IF violations # <<>>
       THEN Msg("Found {} SunExpress route compliance violation(s)", <<Len(violations)>>, <<>>)
       ELSE Msg("All flights comply with SunExpress route policy", <<>>, <<>>)

\* Mutant: data_errors is always a list, empty when no lookup failed.
RouteDetailsAlwaysListed(violations, api_errors) ==
  [violations |-> violations,
   data_errors |-> JList(api_errors),
   note |-> IF api_errors # <<>>
            THEN [type |-> "str",
                  text |-> Msg("Route verification failed for {} route(s): ",
                               <<Len(api_errors)>>, <<>>),
                  joined |-> api_errors]
            ELSE JNone]

\* route_agent.py:351-367: RouteDetails; data_errors and note stay None
\* unless a lookup failed.
RouteDetails(violations, api_errors) ==
  [violations |-> violations,
   data_errors |-> IF api_errors # <<>> THEN JList(api_errors) ELSE JNone,
   note |-> IF api_errors # <<>>
            THEN [type |-> "str",
                  text |-> Msg("Route verification failed for {} route(s): ",
                               <<Len(api_errors)>>, <<>>),
                  joined |-> api_errors]
            ELSE JNone]

\* route_agent.py:247-374
analyze_route_compliance_with_api(flight_reservations, fetches) ==
  LET loop == AnalyzeLoop(Segments(flight_reservations), fetches, 1, <<>>, <<>>)
  IN IF loop.raised THEN loop
     ELSE Return([rule_name |-> "SunExpress Route Compliance",
                  status |-> RouteStatus(loop.value.violations, loop.value.api_errors),
                  message |-> RouteMessage(loop.value.violations, loop.value.api_errors),
                  details |-> RouteDetails(loop.value.violations, loop.value.api_errors)])

\* route_agent.py:383-410: result.model_dump(), or the SYSTEM_ERROR result
\* when the analysis raised.
check_route_compliance(flight_reservations, fetches) ==
  LET result == analyze_route_compliance_with_api(flight_reservations, fetches)
  IN IF result.raised
     THEN Return([rule_name |-> "SunExpress Route Compliance",
                  status |-> "SYSTEM_ERROR",
                  message |-> Msg("System error during route compliance check: {}",
                                  <<>>, <<result.error>>),
                  details |-> [violations |-> <<>>,
                               error_type |-> "data_error",
                               error_message |-> result.error]])
     ELSE result

\* ------------------------------------------------------------------------
\* Completion collaborator
\* ------------------------------------------------------------------------
\* A text the collaborator answers with: the JSON serialization of `doc`
\* (form "json"), that serialization inside a markdown code fence (form
\* "fenced"), free prose or the empty text.
Text(form, doc) == [form |-> form, doc |-> doc]
StrContent(t) == [type |-> "str", text |-> t]

\* json.loads
JsonLoads(t) == IF t.form = "json" THEN Return(t.doc) ELSE Raise("JSONDecodeError")

Violation == [flight_number |-> "XQ141", issue_type |-> "departure_too_early"]

AnswerStatuses ==
  {"COMPLIANT", "NON_COMPLIANT", "WARNING", "UNKNOWN", "SYSTEM_ERROR", "PARTIAL"}

AnswerDetails ==
  { [violations |-> <<>>], [violations |-> <<Violation>>], [summary |-> "no list"] }

\* The mappings a collaborator answers with: with or without status, with
\* or without details, details with or without violations.
AnswerHeads ==
  {[rule_name |-> "Compliance", message |-> Msg("Brief summary", <<>>, <<>>)]}
    \cup {[rule_name |-> "Compliance", message |-> Msg("Brief summary", <<>>, <<>>),
           status |-> st] : st \in AnswerStatuses}

AnswerMaps ==
  AnswerHeads \cup {("details" :> d) @@ h : h \in AnswerHeads, d \in AnswerDetails}

CompliantAnswer ==
  [rule_name |-> "Compliance", message |-> Msg("Brief summary", <<>>, <<>>),
   status |-> "COMPLIANT", details |-> [violations |-> <<>>]]
NoStatusAnswer ==
  [rule_name |-> "Compliance", message |-> Msg("Brief summary", <<>>, <<>>),
   details |-> [violations |-> <<Violation>>]]

\* Parsed values that are not a mapping.
AnswerLists ==
  { JList(<<>>),
    JList(<<JDict(CompliantAnswer)>>),
    JList(<<JDict(NoStatusAnswer), JDict(CompliantAnswer)>>),
    JList(<<JStr("note"), JDict(CompliantAnswer)>>),
    JList(<<JInt(1)>>) }

AnswerScalars == { JStr("COMPLIANT"), JInt(42), JBool(TRUE), JNone }

AnswerValues == {JDict(m) : m \in AnswerMaps} \cup AnswerLists \cup AnswerScalars

\* Content that is not a text but already a Python object.
ObjectContents ==
  AnswerLists \cup (AnswerScalars \ {JStr("COMPLIANT")})
    \cup {JDict(CompliantAnswer), JDict(NoStatusAnswer)}

\* What one call of llm.invoke can do: raise, answer with a text, or answer
\* with content that is already a Python object.
Behaviours ==
  { [kind |-> "raise", error |-> "APIConnectionError"] }
    \cup {[kind |-> "response", content |-> StrContent(Text("json", v))] : v \in AnswerValues}
    \cup {[kind |-> "response", content |-> StrContent(Text("fenced", JDict(CompliantAnswer)))],
          [kind |-> "response", content |-> StrContent(Text("prose", JNone))],
          [kind |-> "response", content |-> StrContent(Text("empty", JNone))]}
    \cup {[kind |-> "response", content |-> v] : v \in ObjectContents}

\* ------------------------------------------------------------------------
\* Timing and identity checkers
\* ------------------------------------------------------------------------
\* timing_agent.py:116-125, identity_agent.py:110-119
LlmCallError(rule_name, error) ==
  [rule_name |-> rule_name,
   status |-> "llm_call_error",
   message |-> Msg(error, <<>>, <<>>),
   details |-> [error_type |-> "llm_call_error", error_message |-> error]]

\* Mutant: the raw response is kept without its code fence.
JsonParseErrorStripped(rule_name, error, content) ==
  [rule_name |-> rule_name,
   status |-> "json_parse_error",
   message |-> Msg("Failed to parse LLM response as valid JSON", <<>>, <<>>),
   details |-> [error_type |-> "json_parse_error", error_message |-> error,
                raw_response |-> StrContent(Text("json", content.text.doc))]]

\* timing_agent.py:165-175, identity_agent.py:151-161
JsonParseError(rule_name, error, content) ==
  [rule_name |-> rule_name,
   status |-> "json_parse_error",
   message |-> Msg("Failed to parse LLM response as valid JSON", <<>>, <<>>),
   details |-> [error_type |-> "json_parse_error", error_message |-> error,
                raw_response |-> content]]

\* Mutant: the message reports the expected type only.
InvalidFormatNoType(rule_name, result) ==
  [rule_name |-> rule_name,
   status |-> "SYSTEM_ERROR",
   message |-> Msg("LLM returned invalid format (expected dictionary)", <<>>, <<>>),
   details |-> [error_type |-> "invalid_format", raw_response |-> result]]

\* timing_agent.py:146-156, identity_agent.py:132-142
InvalidFormat(rule_name, result) ==
  [rule_name |-> rule_name,
   status |-> "SYSTEM_ERROR",
   message |-> Msg("LLM returned invalid format (expected dictionary, got {})",
                   <<>>, <<result.type>>),
   details |-> [error_type |-> "invalid_format", raw_response |-> result]]

\* Mutant: the rule name the collaborator gave is kept.
EnsureStatusKeepName(rule_name, result) ==
  IF "status" \notin DOMAIN result
  THEN SetKey(SetKey(result, "status", "SYSTEM_ERROR"),
              "message", Msg("Missing status field in LLM response", <<>>, <<>>))
  ELSE result

\* timing_agent.py:158-164, identity_agent.py:144-150
EnsureStatus(rule_name, result) ==
  IF "status" \notin DOMAIN result
  THEN SetKey(SetKey(SetKey(result, "status", "SYSTEM_ERROR"),
                     "message", Msg("Missing status field in LLM response", <<>>, <<>>)),
              "rule_name", rule_name)
  ELSE result

\* timing_agent.py:128-134, identity_agent.py:122-128
ParseContent(content) ==
  IF content.type = "str" /\ "text" \in DOMAIN content
  THEN JsonLoads(content.text)
  ELSE Return(content)

\* timing_agent.py:139-143
IsListOfDict(result) ==
  result.type = "list" /\ Len(result.items) > 0 /\ result.items[1].type = "dict"

\* Mutant: the parsing block handles TypeError only.
ParseErrorsCaughtNarrow == {"TypeError"}

\* timing_agent.py:165, identity_agent.py:151: the exceptions the parsing
\* block handles
ParseErrorsCaught == {"JSONDecodeError", "TypeError"}

\* timing_agent.py:128-164: the body of the parsing try block
TimingBody(content) ==
  LET parsed == ParseContent(content)
  IN IF parsed.raised THEN parsed
     ELSE IF parsed.value.type # "dict"
     THEN IF IsListOfDict(parsed.value)
          THEN Return(EnsureStatus("Flight Ticket Timing", parsed.value.items[1].map))
          ELSE Return(InvalidFormat("Flight Ticket Timing", parsed.value))
     ELSE Return(EnsureStatus("Flight Ticket Timing", parsed.value.map))

\* timing_agent.py:94-175
check_timing_compliance(behaviour) ==
  IF behaviour.kind = "raise"
  THEN Return(LlmCallError("Flight Ticket Timing", behaviour.error))
  ELSE LET body == TimingBody(behaviour.content)
       IN IF body.raised /\ body.error \in ParseErrorsCaught
          THEN Return(JsonParseError("Flight Ticket Timing", body.error, behaviour.content))
          ELSE body

\* identity_agent.py:122-150: the body of the parsing try block
IdentityBody(content) ==
  LET parsed == ParseContent(content)
  IN IF parsed.raised THEN parsed
     ELSE IF parsed.value.type # "dict"
     THEN Return(InvalidFormat("Passenger Identity", parsed.value))
     ELSE Return(EnsureStatus("Passenger Identity", parsed.value.map))

\* identity_agent.py:88-161
check_passenger_identity(behaviour) ==
  IF behaviour.kind = "raise"
  THEN Return(LlmCallError("Passenger Identity", behaviour.error))
  ELSE LET body == IdentityBody(behaviour.content)
       IN IF body.raised /\ body.error \in ParseErrorsCaught
          THEN Return(JsonParseError("Passenger Identity", body.error, behaviour.content))
          ELSE body

\* ------------------------------------------------------------------------
\* Orchestrator / report aggregator
\* ------------------------------------------------------------------------
\* orchestrator.py:101-120
compliance_checks ==
  << [name |-> "Flight Ticket Timing",
      description |-> "Checking if flight times are within approved travel period",
      method |-> "check_timing_compliance",
      icon |-> "clock"],
     [name |-> "Passenger Identity",
      description |-> "Verifying passenger identities match approval records",
      method |-> "check_passenger_identity",
      icon |-> "person"],
     [name |-> "SunExpress Route Compliance",
      description |-> "Checking if SunExpress operates routes but alternative airlines were used",
      method |-> "check_route_compliance",
      icon |-> "plane"] >>

\* orchestrator.py:123
total_checks == Len(compliance_checks)

\* Mutant: a failed collaborator call is not a system error.
system_error_statuses_without_llm == {"SYSTEM_ERROR", "json_parse_error"}

\* orchestrator.py:151
system_error_statuses == {"SYSTEM_ERROR", "json_parse_error", "llm_call_error"}

\* orchestrator.py:153-157
system_error_count(rs) ==
  Cardinality({k \in 1..Len(rs) :
                 "status" \in DOMAIN rs[k] /\ rs[k]["status"] \in system_error_statuses})

\* orchestrator.py:158-162
non_compliant_count(rs) ==
  Cardinality({k \in 1..Len(rs) :
                 "status" \in DOMAIN rs[k] /\ rs[k]["status"] = "NON_COMPLIANT"})

\* orchestrator.py:163-165
warning_count(rs) ==
  Cardinality({k \in 1..Len(rs) :
                 "status" \in DOMAIN rs[k] /\ rs[k]["status"] = "WARNING"})

\* Mutant: a business violation shadows a system error.
overall_status_violation_first(rs) ==
  IF non_compliant_count(rs) > 0 THEN "NON_COMPLIANT"
  ELSE IF system_error_count(rs) > 0 THEN "SYSTEM_ERROR"
  ELSE IF warning_count(rs) > 0 THEN "WARNING"
  ELSE "COMPLIANT"

\* orchestrator.py:167-178
overall_status_of(rs) ==
  IF system_error_count(rs) > 0 THEN "SYSTEM_ERROR"
  ELSE IF non_compliant_count(rs) > 0 THEN "NON_COMPLIANT"
  ELSE IF warning_count(rs) > 0 THEN "WARNING"
  ELSE "COMPLIANT"

\* orchestrator.py:167-178
summary_of(rs) ==
  IF system_error_count(rs) > 0
  THEN Msg("SYSTEM ERROR: {} system errors occurred", <<system_error_count(rs)>>, <<>>)
  ELSE IF non_compliant_count(rs) > 0
  THEN Msg("VIOLATION: {} critical violations found", <<non_compliant_count(rs)>>, <<>>)
  ELSE IF warning_count(rs) > 0
  THEN Msg("WARNING: {} issues require attention", <<warning_count(rs)>>, <<>>)
  ELSE Msg("PASSED: All compliance rules satisfied", <<>>, <<>>)

\* ------------------------------------------------------------------------
\* State
\* ------------------------------------------------------------------------
VARIABLES
  pc,                  \* position of the running call
  flight_reservations, \* the reservations document of the audit
  progress_callback,   \* TRUE when the caller supplied a progress observer
  i,                   \* loop index of generate_compliance_report
  results,             \* the results list being built
  events,              \* observer notifications and checker calls, in order
  llm_calls,           \* the collaborator calls made, with what each one did
  fetches,             \* what the data source gave each segment's lookup
  analysis,            \* outcome of analyze_route_compliance_with_api
  report,              \* the report returned, JNone before that
  travel_approval,     \* the approval document of the audit
  reverse_fetches,     \* the lookups of a run on a dataset with other reverse entries
  session_state,       \* st.session_state of the page that runs the audit
  cache_file,          \* the route-data cache file
  now,                 \* time.time()
  callers              \* the calls of fetch_airline_route_data under way

vars == <<pc, flight_reservations, progress_callback, i, results, events,
          llm_calls, fetches, analysis, report, travel_approval, reverse_fetches,
          session_state, cache_file, now, callers>>

\* what a call of a checker or of the orchestrator leaves alone
surroundings == <<travel_approval, reverse_fetches, session_state, cache_file, now, callers>>

\* tests/test_compliance.py:16-36: timestamps as seconds, counted from the
\* start of the day the approved period begins
valid_travel_approval ==
  [travelCity |-> "Frankfurt", travelCountry |-> "Germany",
   travelBeginDate |-> 32400, travelEndDate |-> 378000,
   travelReason |-> "Business", Status |-> "Approved"]

\* no cache file: os.path.exists is false
NoFile == [exists |-> FALSE]

\* a call that involves neither the page nor the cache file
Alone ==
  /\ travel_approval = valid_travel_approval
  /\ reverse_fetches = <<>>
  /\ session_state = <<>>
  /\ cache_file = NoFile
  /\ now = 0
  /\ callers = <<>>

\* route_agent.py:282-296: a segment flown on XQ is skipped before the
\* lookup, and so is one whose date extraction raises.
LooksUp(flight) ==
  ~IsSunExpressFlight(flight) /\ ~travel_date_of(departure_date_of(flight)).raised

\* The lookups of the route checker: what the data source gives the lookup
\* of each segment (a segment without lookup fetches nothing).
FetchPlans(reservations) ==
  LET segs == Segments(reservations)
  IN {plan \in [1..Len(segs) -> FetchOutcomes] :
        \A k \in 1..Len(segs) :
          ~LooksUp(segs[k].flight) => plan[k] = [kind |-> "data", data |-> RouteData]}

\* Reservation documents of the audits of the orchestrator runs.
AuditInputs ==
  { <<>>,
    <<[bookingReference |-> "BR-1", flights |-> <<SegXQ>>]>>,
    <<[bookingReference |-> "BR-1", flights |-> <<SegTK, SegXQ>>]>>,
    <<[bookingId |-> "TIC-457855", flights |-> <<SegTKUnserved>>],
      [bookingReference |-> "BR-1", flights |-> <<SegNoDate>>]>> }

\* Mutant: the observer is told the number of completed checks.
NotifyEventCompleted(check, current) ==
  [ev |-> "notify", current |-> current - 1, total |-> total_checks,
   current_job |-> check.name, description |-> check.description, icon |-> check.icon]

\* orchestrator.py:128-134
NotifyEvent(check, current) ==
  [ev |-> "notify", current |-> current, total |-> total_checks,
   current_job |-> check.name, description |-> check.description, icon |-> check.icon]
CallEvent(check) == [ev |-> "call", method |-> check.method]
ReturnEvent(check) == [ev |-> "return", method |-> check.method]

\* ------------------------------------------------------------------------
\* generate_compliance_report
\* ------------------------------------------------------------------------
Init ==
  /\ pc = "notify"
  /\ flight_reservations \in AuditInputs
  /\ progress_callback \in BOOLEAN
  /\ i = 0
  /\ results = <<>>
  /\ events = <<>>
  /\ llm_calls = <<>>
  /\ fetches = <<>>
  /\ analysis = JNone
  /\ report = JNone
  /\ Alone

\* orchestrator.py:125-134
NotifyProgress ==
  /\ pc = "notify"
  /\ i < total_checks
  /\ events' = IF progress_callback
               THEN Append(events, NotifyEvent(compliance_checks[i + 1], i + 1))
               ELSE events
  /\ pc' = "check"
  /\ UNCHANGED <<flight_reservations, progress_callback, i, results, llm_calls,
                 fetches, analysis, report>>
  /\ UNCHANGED surroundings

\* Mutant: a system-error-class result ends the pass.
CalledStopOnError(check, outcome) ==
  IF outcome.raised
  THEN /\ events' = Append(events, CallEvent(check))
       /\ pc' = "raised"
       /\ UNCHANGED <<results, i>>
  ELSE /\ results' = Append(results, outcome.value)
       /\ events' = events \o <<CallEvent(check), ReturnEvent(check)>>
       /\ i' = i + 1
       /\ pc' = IF i + 1 < total_checks /\ outcome.value["status"] \notin system_error_statuses
                THEN "notify" ELSE "aggregate"

\* orchestrator.py:141-147: the call of check["method"]; an exception it
\* lets out ends generate_compliance_report without a report.
Called(check, outcome) ==
  IF outcome.raised
  THEN /\ events' = Append(events, CallEvent(check))
       /\ pc' = "raised"
       /\ UNCHANGED <<results, i>>
  ELSE /\ results' = Append(results, outcome.value)
       /\ events' = events \o <<CallEvent(check), ReturnEvent(check)>>
       /\ i' = i + 1
       /\ pc' = IF i + 1 < total_checks THEN "notify" ELSE "aggregate"

\* orchestrator.py:142 with timing_agent.py:94-175
CheckTiming ==
  /\ pc = "check"
  /\ compliance_checks[i + 1].method = "check_timing_compliance"
  /\ \E behaviour \in Behaviours :
       /\ llm_calls' = Append(llm_calls, [rule |-> "timing", behaviour |-> behaviour])
       /\ Called(compliance_checks[i + 1], check_timing_compliance(behaviour))
  /\ UNCHANGED <<flight_reservations, progress_callback, fetches, analysis, report>>
  /\ UNCHANGED surroundings

\* orchestrator.py:142 with identity_agent.py:88-161
CheckIdentity ==
  /\ pc = "check"
  /\ compliance_checks[i + 1].method = "check_passenger_identity"
  /\ \E behaviour \in Behaviours :
       /\ llm_calls' = Append(llm_calls, [rule |-> "identity", behaviour |-> behaviour])
       /\ Called(compliance_checks[i + 1], check_passenger_identity(behaviour))
  /\ UNCHANGED <<flight_reservations, progress_callback, fetches, analysis, report>>
  /\ UNCHANGED surroundings

\* orchestrator.py:142 with route_agent.py:383-410
CheckRoute ==
  /\ pc = "check"
  /\ compliance_checks[i + 1].method = "check_route_compliance"
  /\ \E plan \in FetchPlans(flight_reservations) :
       /\ fetches' = plan
       /\ analysis' = analyze_route_compliance_with_api(flight_reservations, plan)
       /\ Called(compliance_checks[i + 1],
                 check_route_compliance(flight_reservations, plan))
  /\ UNCHANGED <<flight_reservations, progress_callback, llm_calls, report>>
  /\ UNCHANGED surroundings

\* orchestrator.py:149-184
Aggregate ==
  /\ pc = "aggregate"
  /\ report' = JDict([overall_status |-> overall_status_of(results),
                      results |-> results,
                      summary |-> summary_of(results)])
  /\ pc' = "done"
  /\ UNCHANGED <<flight_reservations, progress_callback, i, results, events,
                 llm_calls, fetches, analysis>>
  /\ UNCHANGED surroundings

Next == NotifyProgress \/ CheckTiming \/ CheckIdentity \/ CheckRoute \/ Aggregate

Spec == Init /\ [][Next]_vars

\* ------------------------------------------------------------------------
\* A checker called on its own: its result, or the exception it lets out
\* ------------------------------------------------------------------------
Finished(outcome, done) ==
  IF outcome.raised
  THEN pc' = "raised" /\ UNCHANGED results
  ELSE pc' = done /\ results' = <<outcome.value>>

\* ------------------------------------------------------------------------
\* check_route_compliance called on its own, over all bounded documents
\* ------------------------------------------------------------------------
InitRoute ==
  /\ pc = "route"
  /\ flight_reservations \in ReservationLists
  /\ progress_callback = FALSE
  /\ i = 0
  /\ results = <<>>
  /\ events = <<>>
  /\ llm_calls = <<>>
  /\ fetches = <<>>
  /\ analysis = JNone
  /\ report = JNone
  /\ Alone

\* route_agent.py:383-410
CallRouteCheck ==
  /\ pc = "route"
  /\ \E plan \in FetchPlans(flight_reservations) :
       /\ fetches' = plan
       /\ analysis' = analyze_route_compliance_with_api(flight_reservations, plan)
       /\ Finished(check_route_compliance(flight_reservations, plan), "route_done")
  /\ UNCHANGED <<flight_reservations, progress_callback, i, events, llm_calls, report>>
  /\ UNCHANGED surroundings

NextRoute == CallRouteCheck

SpecRoute == InitRoute /\ [][NextRoute]_vars

\* ------------------------------------------------------------------------
\* The timing and the identity checker called on their own
\* ------------------------------------------------------------------------
InitChecker ==
  /\ pc = "checker"
  /\ flight_reservations = <<>>
  /\ progress_callback = FALSE
  /\ i = 0
  /\ results = <<>>
  /\ events = <<>>
  /\ llm_calls = <<>>
  /\ fetches = <<>>
  /\ analysis = JNone
  /\ report = JNone
  /\ Alone

\* timing_agent.py:94-175
CallTimingCheck ==
  /\ pc = "checker"
  /\ \E behaviour \in Behaviours :
       /\ llm_calls' = <<[rule |-> "timing", behaviour |-> behaviour]>>
       /\ Finished(check_timing_compliance(behaviour), "checker_done")
  /\ UNCHANGED <<flight_reservations, progress_callback, i, events, fetches,
                 analysis, report>>
  /\ UNCHANGED surroundings

\* identity_agent.py:88-161
CallIdentityCheck ==
  /\ pc = "checker"
  /\ \E behaviour \in Behaviours :
       /\ llm_calls' = <<[rule |-> "identity", behaviour |-> behaviour]>>
       /\ Finished(check_passenger_identity(behaviour), "checker_done")
  /\ UNCHANGED <<flight_reservations, progress_callback, i, events, fetches,
                 analysis, report>>
  /\ UNCHANGED surroundings

NextChecker == CallTimingCheck \/ CallIdentityCheck

SpecChecker == InitChecker /\ [][NextChecker]_vars

\* ------------------------------------------------------------------------
\* The aggregation applied to synthetic per-rule results
\* ------------------------------------------------------------------------
SyntheticStatuses ==
  {"COMPLIANT", "NON_COMPLIANT", "WARNING", "UNKNOWN", "SYSTEM_ERROR",
   "json_parse_error", "llm_call_error", "PARTIAL"}

SyntheticResults ==
  {[rule_name |-> "Synthetic", status |-> st, details |-> [violations |-> vs]] :
     st \in SyntheticStatuses, vs \in {<<>>, <<Violation>>}}

InitAggregate ==
  /\ pc = "aggregate"
  /\ flight_reservations = <<>>
  /\ progress_callback = FALSE
  /\ i = total_checks
  /\ results \in [1..total_checks -> SyntheticResults]
  /\ events = <<>>
  /\ llm_calls = <<>>
  /\ fetches = <<>>
  /\ analysis = JNone
  /\ report = JNone
  /\ Alone

NextAggregate == Aggregate

SpecAggregate == InitAggregate /\ [][NextAggregate]_vars

\* ------------------------------------------------------------------------
\* check_route_compliance on two datasets that differ in the entries of the
\* reverse direction of the audited segments
\* ------------------------------------------------------------------------
SegTKReturn ==
  [flightNumber |-> "TK124", airlineCode |-> "TK", airlineName |-> "Turkish Airlines",
   departureAirport |-> "FRA", arrivalAirport |-> "AYT", departureDate |-> DateT]

ReverseInputs ==
  {<<[bookingReference |-> "BR-1", flights |-> fs]>> :
     fs \in UNION {[1..n -> SegmentPool \cup {SegTKReturn}] : n \in 0..MaxSegments}}

\* the (airport, target) pairs a lookup of the segments reads forward
ForwardPairs(segs) ==
  {<<Upper(departure_airport_of(segs[k].flight)), Upper(arrival_airport_of(segs[k].flight))>> :
     k \in 1..Len(segs)}

\* the pairs read for the reverse direction only
ReversePairs(segs) ==
  {<<Upper(arrival_airport_of(segs[k].flight)), Upper(departure_airport_of(segs[k].flight))>> :
     k \in 1..Len(segs)} \ ForwardPairs(segs)

\* What a dataset can hold for one direction: no route entry, an entry
\* without carriers, an entry with other carriers, an entry with XQ.
ReverseModes == {"absent", "no_carriers", "other_carrier", "xq"}

RouteEntries(target, mode) ==
  CASE mode = "absent" -> <<>>
    [] mode = "no_carriers" -> <<[iata |-> target, km |-> 2300, min |-> 215]>>
    [] mode = "other_carrier" ->
         <<[iata |-> target, km |-> 2300, min |-> 215,
            carriers |-> <<[iata |-> "TK", name |-> "Turkish Airlines"]>>]>>
    [] mode = "xq" ->
         <<[iata |-> target, km |-> 2300, min |-> 215,
            carriers |-> <<[iata |-> "LH", name |-> "Lufthansa"],
                           [iata |-> "XQ", name |-> "SunExpress"]>>]>>

\* the dataset `data` with the route entries airport -> target replaced
WithRouteEntries(data, airport, target, mode) ==
  LET routes == IF airport \in DOMAIN data THEN Get(data[airport], "routes", <<>>) ELSE <<>>
      OtherTarget(route) == Get(route, "iata", "") # target
      replaced == RouteEntries(target, mode) \o SelectSeq(routes, OtherTarget)
  IN IF airport \notin DOMAIN data /\ mode = "absent" THEN data
     ELSE (airport :> [routes |-> replaced]) @@ data

RECURSIVE WithReverseEntries(_, _, _)
WithReverseEntries(data, pairs, modes) ==
  IF pairs = {} THEN data
  ELSE LET pair == CHOOSE pr \in pairs : TRUE
       IN WithReverseEntries(WithRouteEntries(data, pair[1], pair[2], modes[pair]),
                             pairs \ {pair}, modes)

\* the datasets that agree with RouteData except in the reverse entries
ReverseDatasets(segs) ==
  {WithReverseEntries(RouteData, ReversePairs(segs), modes) :
     modes \in [ReversePairs(segs) -> ReverseModes]}

\* every lookup of a run is answered from the same dataset
DatasetPlan(segs, data) == [k \in 1..Len(segs) |-> [kind |-> "data", data |-> data]]

InitReverse ==
  /\ pc = "dataset"
  /\ flight_reservations \in ReverseInputs
  /\ progress_callback = FALSE
  /\ i = 0
  /\ results = <<>>
  /\ events = <<>>
  /\ llm_calls = <<>>
  /\ fetches = <<>>
  /\ analysis = JNone
  /\ report = JNone
  /\ Alone

\* route_agent.py:383-410, the data source serving one dataset: the first
\* run, then a run of the same reservations on a dataset with other
\* reverse entries
CallRouteCheckOnDataset ==
  /\ pc \in {"dataset", "dataset_done"}
  /\ \E data \in ReverseDatasets(Segments(flight_reservations)) :
       \E plan \in {DatasetPlan(Segments(flight_reservations), data)} :
         \E outcome \in {check_route_compliance(flight_reservations, plan)} :
           /\ IF pc = "dataset"
              THEN fetches' = plan /\ UNCHANGED reverse_fetches
              ELSE reverse_fetches' = plan /\ UNCHANGED fetches
           /\ IF outcome.raised
              THEN pc' = "raised" /\ UNCHANGED results
              ELSE /\ pc' = IF pc = "dataset" THEN "dataset_done" ELSE "reverse_done"
                   /\ results' = Append(results, outcome.value)
  /\ UNCHANGED <<flight_reservations, progress_callback, i, events, llm_calls,
                 analysis, report>>
  /\ UNCHANGED <<travel_approval, session_state, cache_file, now, callers>>

NextReverse == CallRouteCheckOnDataset

SpecReverse == InitReverse /\ [][NextReverse]_vars

\* ------------------------------------------------------------------------
\* fetch_airline_route_data and the cache file
\* ------------------------------------------------------------------------
\* The file holds a sequence of blocks: block k > 0 is the k-th block of
\* the serialization of the dataset (json.dump reaches the file one
\* buffer at a time), block 0 is anything else (the zero bytes of a hole,
\* foreign bytes).
Serialized == [k \in 1..MaxChunks |-> k]

\* route_agent.py:93: the default of the parameter cache_timeout
cache_timeout == 3600

\* A file as a call finds it: [exists, content, mtime].
File(content, mtime) == [exists |-> TRUE, content |-> content, mtime |-> mtime]

\* what the file can hold: a full copy, the leftovers of a write that
\* stopped early, foreign bytes, nothing
FileContents ==
  {Serialized, SubSeq(Serialized, 1, MaxChunks - 1), <<0>>, <<>>}

\* Mutant: a cache that holds the beginning of the data is read as data.
LoadCacheLenient(content) ==
  IF content = Serialized THEN Return([kind |-> "data", data |-> RouteData])
  ELSE IF content # <<>> /\ \A k \in 1..Len(content) : content[k] = k
  THEN Return([kind |-> "partial", blocks |-> content])
  ELSE Raise("JSONDecodeError")

\* route_agent.py:108-109: json.load(f) on what was read
LoadCache(content) ==
  IF content = Serialized THEN Return([kind |-> "data", data |-> RouteData])
  ELSE Raise("JSONDecodeError")

\* Mutant: the cache never expires.
CacheNeverExpires(cache_age) == TRUE

\* Mutant: a cache of exactly cache_timeout seconds is still used.
CacheIsFreshInclusive(cache_age) == cache_age <= cache_timeout

\* route_agent.py:107
CacheIsFresh(cache_age) == cache_age < cache_timeout

\* route_agent.py:114-118 and 128-137: what the request gives the call
RequestOutcomes ==
  { [kind |-> "data", data |-> RouteData],
    [kind |-> "error", error |-> "Failed to fetch airline route data"],
    [kind |-> "error", error |-> "Failed to parse airline route data"] }

\* f.write at the writer's own offset: blocks the file does not have yet
\* up to there read as block 0
WriteAt(content, offset, block) ==
  [k \in 1..(IF Len(content) > offset + 1 THEN Len(content) ELSE offset + 1) |->
     IF k = offset + 1 THEN block
     ELSE IF k <= Len(content) THEN content[k] ELSE 0]

\* A call that has not started.
IdleCaller ==
  [pc |-> "idle", calls |-> 0, seen |-> NoFile, checked_at |-> 0, buffer |-> <<>>,
   offset |-> 0, requests |-> 0, read |-> "none", written |-> "none", result |-> JNone]

Step(c, changes) == callers' = [callers EXCEPT ![c] = changes @@ callers[c]]

\* route_agent.py:101-104: os.path.exists(cache_file)
BeginCall(c) ==
  /\ callers[c].pc = "idle"
  /\ Step(c, [pc |-> IF cache_file.exists THEN "age" ELSE "request",
              calls |-> callers[c].calls + 1, seen |-> cache_file])
  /\ UNCHANGED <<cache_file, now>>

\* route_agent.py:106-108: the age of the file, and open(cache_file, "r")
CheckAge(c) ==
  /\ callers[c].pc = "age"
  /\ Step(c, [pc |-> IF CacheIsFresh(now - cache_file.mtime) THEN "read" ELSE "request",
              checked_at |-> now])
  /\ UNCHANGED <<cache_file, now>>

\* route_agent.py:108-111: json.load(f) reads the file block by block to
\* its end and parses what it read; whatever goes wrong is passed over
ReadCache(c) ==
  /\ callers[c].pc = "read"
  /\ IF Len(callers[c].buffer) < Len(cache_file.content)
     THEN Step(c, [buffer |-> Append(callers[c].buffer,
                                     cache_file.content[Len(callers[c].buffer) + 1])])
     ELSE LET loaded == LoadCache(callers[c].buffer)
          IN IF loaded.raised
             THEN Step(c, [pc |-> "request", buffer |-> <<>>, read |-> "unreadable"])
             ELSE Step(c, [pc |-> "returned", buffer |-> <<>>, read |-> "loaded",
                           result |-> loaded.value])
  /\ UNCHANGED <<cache_file, now>>

\* route_agent.py:113-118 and 128-137: requests.get, raise_for_status,
\* response.json()
Request(c) ==
  /\ callers[c].pc = "request"
  /\ \E outcome \in RequestOutcomes :
       Step(c, [pc |-> IF outcome.kind = "data" THEN "open" ELSE "returned",
                requests |-> callers[c].requests + 1,
                result |-> outcome])
  /\ UNCHANGED <<cache_file, now>>

\* route_agent.py:121-125: open(cache_file, "w") empties the file; when it
\* fails the data is returned all the same
OpenForWrite(c) ==
  /\ callers[c].pc = "open"
  /\ \/ /\ cache_file' = File(<<>>, now)
        /\ Step(c, [pc |-> "write", offset |-> 0, written |-> "opened"])
     \/ /\ Step(c, [pc |-> "returned", written |-> "failed"])
        /\ UNCHANGED cache_file
  /\ UNCHANGED now

\* route_agent.py:122-127: json.dump(data, f) one block at a time, then
\* close and return; a write that fails leaves what was written
WriteCache(c) ==
  /\ callers[c].pc = "write"
  /\ IF callers[c].offset < MaxChunks
     THEN \/ /\ cache_file' = File(WriteAt(cache_file.content, callers[c].offset,
                                           Serialized[callers[c].offset + 1]), now)
             /\ Step(c, [offset |-> callers[c].offset + 1])
          \/ /\ Step(c, [pc |-> "returned", offset |-> 0, written |-> "failed"])
             /\ UNCHANGED cache_file
     ELSE /\ Step(c, [pc |-> "returned", offset |-> 0, written |-> "closed"])
          /\ UNCHANGED cache_file
  /\ UNCHANGED now

\* the next call of the same caller
CallAgain(c) ==
  /\ callers[c].pc = "returned"
  /\ callers[c].calls < MaxCalls
  /\ Step(c, [pc |-> "idle", calls |-> callers[c].calls] @@ IdleCaller)
  /\ UNCHANGED <<cache_file, now>>

\* time.time() moves on
Tick ==
  /\ now < MaxTicks * (cache_timeout \div 2)
  /\ now' = now + (cache_timeout \div 2)
  /\ UNCHANGED <<cache_file, callers>>

FetchStep(c) ==
  \/ BeginCall(c) \/ CheckAge(c) \/ ReadCache(c) \/ Request(c)
  \/ OpenForWrite(c) \/ WriteCache(c)

outsideCache ==
  <<pc, flight_reservations, progress_callback, i, results, events, llm_calls,
    fetches, analysis, report, travel_approval, reverse_fetches, session_state>>

InitCacheFile ==
  /\ pc = "fetch"
  /\ flight_reservations = <<>>
  /\ progress_callback = FALSE
  /\ i = 0
  /\ results = <<>>
  /\ events = <<>>
  /\ llm_calls = <<>>
  /\ fetches = <<>>
  /\ analysis = JNone
  /\ report = JNone
  /\ travel_approval = valid_travel_approval
  /\ reverse_fetches = <<>>
  /\ session_state = <<>>
  /\ cache_file \in {NoFile} \cup {File(content, 0) : content \in FileContents}
  /\ now \in {0, cache_timeout \div 2}

\* Two calls at the same time (two audits sharing the cache file).
InitCache ==
  /\ InitCacheFile
  /\ callers = <<IdleCaller, IdleCaller>>

NextCache ==
  \/ \E c \in DOMAIN callers : FetchStep(c) /\ UNCHANGED outsideCache
  \/ Tick /\ UNCHANGED outsideCache

SpecCache == InitCache /\ [][NextCache]_vars

\* One caller, one call after the other.
InitFetch ==
  /\ InitCacheFile
  /\ callers = <<IdleCaller>>

NextFetch ==
  \/ \E c \in DOMAIN callers : (FetchStep(c) \/ CallAgain(c)) /\ UNCHANGED outsideCache
  \/ Tick /\ UNCHANGED outsideCache

SpecFetch == InitFetch /\ [][NextFetch]_vars

\* ------------------------------------------------------------------------
\* One checker invoked twice on the same documents, with a stub that gives
\* the same answer both times and an unchanged data source
\* ------------------------------------------------------------------------
\* Mutant: the checker takes the keys out of the mapping it was given.
ContentAfterEmptied(rule_name, content) ==
  IF content.type = "dict" THEN JDict(<<>>) ELSE content

\* timing_agent.py:128-164, identity_agent.py:122-150: the stub's answer
\* object after a call. A text is parsed into new objects and stays as it
\* is; a mapping used directly gets the missing status written into it,
\* and so does the first mapping of a list the Timing checker accepts.
ContentAfter(rule_name, content) ==
  IF content.type = "str" /\ "text" \in DOMAIN content THEN content
  ELSE IF content.type = "dict"
  THEN JDict(EnsureStatus(rule_name, content.map))
  ELSE IF rule_name = "Flight Ticket Timing" /\ IsListOfDict(content)
  THEN JList([content.items EXCEPT
                ![1] = JDict(EnsureStatus(rule_name, content.items[1].map))])
  ELSE content

\* what the stub does when it is called again: it raises again, or it
\* answers with the same object, as the previous call left it
StubAgain(rule_name, behaviour) ==
  IF behaviour.kind = "raise" THEN behaviour
  ELSE [kind |-> "response", content |-> ContentAfter(rule_name, behaviour.content)]

InitTwice ==
  /\ pc = "first"
  /\ flight_reservations \in AuditInputs
  /\ progress_callback = FALSE
  /\ i = 0
  /\ results = <<>>
  /\ events = <<>>
  /\ llm_calls = <<>>
  /\ fetches = <<>>
  /\ analysis = JNone
  /\ report = JNone
  /\ Alone

\* the result of an invocation joins the results; an exception ends the run
Invoked(outcome, done) ==
  IF outcome.raised
  THEN pc' = "raised" /\ UNCHANGED results
  ELSE pc' = done /\ results' = Append(results, outcome.value)

\* timing_agent.py:94-175, invoked a first and then a second time
InvokeTiming ==
  /\ pc \in {"first", "timing_again"}
  /\ \E behaviour \in IF pc = "first" THEN Behaviours
                       ELSE {StubAgain("Flight Ticket Timing", llm_calls[1].behaviour)} :
       /\ llm_calls' = Append(llm_calls, [rule |-> "timing", behaviour |-> behaviour])
       /\ Invoked(check_timing_compliance(behaviour),
                  IF pc = "first" THEN "timing_again" ELSE "twice_done")
  /\ UNCHANGED <<flight_reservations, progress_callback, i, events, fetches,
                 analysis, report>>
  /\ UNCHANGED surroundings

\* identity_agent.py:88-161, invoked a first and then a second time
InvokeIdentity ==
  /\ pc \in {"first", "identity_again"}
  /\ \E behaviour \in IF pc = "first" THEN Behaviours
                       ELSE {StubAgain("Passenger Identity", llm_calls[1].behaviour)} :
       /\ llm_calls' = Append(llm_calls, [rule |-> "identity", behaviour |-> behaviour])
       /\ Invoked(check_passenger_identity(behaviour),
                  IF pc = "first" THEN "identity_again" ELSE "twice_done")
  /\ UNCHANGED <<flight_reservations, progress_callback, i, events, fetches,
                 analysis, report>>
  /\ UNCHANGED surroundings

\* route_agent.py:383-410, invoked a first and then a second time: the
\* data source gives each lookup of the second run what it gave it in the
\* first
InvokeRoute ==
  /\ pc \in {"first", "route_again"}
  /\ \E plan \in IF pc = "first" THEN FetchPlans(flight_reservations) ELSE {fetches} :
       \E outcome \in {check_route_compliance(flight_reservations, plan)} :
         /\ fetches' = plan
         /\ Invoked(outcome, IF pc = "first" THEN "route_again" ELSE "twice_done")
  /\ UNCHANGED <<flight_reservations, progress_callback, i, events, llm_calls,
                 analysis, report>>
  /\ UNCHANGED surroundings

NextTwice == InvokeTiming \/ InvokeIdentity \/ InvokeRoute

SpecTwice == InitTwice /\ [][NextTwice]_vars

\* ------------------------------------------------------------------------
\* The page that runs the audit: input form, audit progress, audit failed
\* ------------------------------------------------------------------------
\* the empty text of a text area
BlankText == Text("empty", JNone)

\* what can be typed into the travel approval text area
TravelTexts ==
  { BlankText,
    Text("prose", JNone),
    Text("json", JNone),
    Text("json", JDict(<<>>)),
    Text("json", JDict(valid_travel_approval)),
    Text("json", JDict([data |-> valid_travel_approval])) }

\* what can be typed into the flight ticket text area
TicketTexts ==
  { BlankText,
    Text("fenced", JNone),
    Text("json", JNone),
    Text("json", JDict([flights |-> <<>>])),
    Text("json", JDict([flights |->
                          <<[bookingReference |-> "BR-1", flights |-> <<SegXQ>>]>>])),
    Text("json", JDict([data |-> [flights |->
                          <<[bookingReference |-> "BR-1", flights |-> <<SegTK>>]>>]])) }

\* str.strip() of the text is empty
IsBlank(t) == t.form = "empty"

\* bool(v) of a parsed document, a mapping or a list
Truthy(v) ==
  CASE v.type = "NoneType" -> FALSE
    [] v.type = "dict" -> DOMAIN v.map # {}
    [] v.type = "list" -> Len(v.items) > 0
    [] OTHER -> TRUE

\* del d[key] for the keys present
DelKeys(d, keys) == [k \in DOMAIN d \ keys |-> d[k]]

\* Mutant: a text that does not parse is taken for an empty document.
parse_json_input_lenient(json_str) ==
  LET loaded == JsonLoads(json_str)
  IN IF loaded.raised THEN JDict(<<>>) ELSE loaded.value

\* utils.py:24-31
parse_json_input(json_str) ==
  LET loaded == JsonLoads(json_str)
  IN IF loaded.raised THEN JNone ELSE loaded.value

\* utils.py:34-50: travel_approval and flight_reservations, or the pair of
\* None when a document is not a mapping
extract_data_from_json(travel_data, ticket_data) ==
  IF travel_data.type # "dict" \/ ticket_data.type # "dict"
  THEN [travel_approval |-> <<>>, flight_reservations |-> <<>>]
  ELSE [travel_approval |->
          Get(travel_data.map, "data", travel_data.map),
        flight_reservations |->
          IF "data" \in DOMAIN ticket_data.map
               /\ "flights" \in DOMAIN ticket_data.map["data"]
          THEN ticket_data.map["data"]["flights"]
          ELSE Get(ticket_data.map, "flights", <<>>)]

\* audit_progress.py:69-73
JsonErrors(travel_data, ticket_data) ==
  (IF travel_data = JNone THEN <<"Travel Approval JSON is invalid or empty">> ELSE <<>>)
    \o (IF ticket_data = JNone THEN <<"Flight Ticket JSON is invalid or empty">> ELSE <<>>)

\* audit_progress.py:174: max_retries outside a cloud deployment
max_retries == 2

\* the record of an audit: nothing has been called, nothing returned
NoRecord ==
  /\ i' = 0
  /\ results' = <<>>
  /\ events' = <<>>
  /\ llm_calls' = <<>>
  /\ fetches' = <<>>
  /\ analysis' = JNone
  /\ report' = JNone

pageOnly == <<flight_reservations, progress_callback, i, results, events, llm_calls,
              fetches, analysis, report, travel_approval, reverse_fetches,
              cache_file, now, callers>>

InitPage ==
  /\ pc = "form"
  /\ flight_reservations = <<>>
  /\ progress_callback = FALSE
  /\ i = 0
  /\ results = <<>>
  /\ events = <<>>
  /\ llm_calls = <<>>
  /\ fetches = <<>>
  /\ analysis = JNone
  /\ report = JNone
  /\ Alone

\* input_form.py:52-91: the Run button, enabled when neither text is blank
RunAudit ==
  /\ pc = "form"
  /\ ~Get(session_state, "running_audit", FALSE)
  /\ ~Get(session_state, "audit_completed", FALSE)
  /\ \E travel_approval_input \in TravelTexts, ticket_data_input \in TicketTexts :
       /\ ~(IsBlank(travel_approval_input) \/ IsBlank(ticket_data_input))
       /\ session_state' =
            [audit_request |-> [travel_input_data |-> travel_approval_input,
                                ticket_input_data |-> ticket_data_input,
                                timestamp |-> now,
                                status |-> "initiated"],
             running_audit |-> TRUE,
             audit_completed |-> FALSE]
              @@ DelKeys(session_state, {"audit_data_retry_count", "travel_input_data",
                                         "ticket_input_data"})
  /\ pc' = "page"
  /\ NoRecord
  /\ UNCHANGED <<flight_reservations, progress_callback, travel_approval,
                 reverse_fetches, cache_file, now, callers>>

\* audit_progress.py:10-138 and 164-221: the page up to the call of
\* generate_compliance_report
RenderAuditProgress ==
  /\ pc = "page"
  /\ LET audit_request == Get(session_state, "audit_request", <<>>)
         atomic == DOMAIN audit_request # {}
                     /\ Get(audit_request, "status", "") = "initiated"
         travel_approval_input ==
           IF atomic THEN Get(audit_request, "travel_input_data", BlankText)
           ELSE Get(session_state, "travel_input_data", BlankText)
         ticket_data_input ==
           IF atomic THEN Get(audit_request, "ticket_input_data", BlankText)
           ELSE Get(session_state, "ticket_input_data", BlankText)
         travel_data == parse_json_input(travel_approval_input)
         ticket_data == parse_json_input(ticket_data_input)
         json_errors == JsonErrors(travel_data, ticket_data)
         extracted == extract_data_from_json(travel_data, ticket_data)
         started == DelKeys(session_state, {"audit_data_retry_count"})
         retry_count == Get(session_state, "audit_data_retry_count", 0)
     IN IF Get(session_state, "audit_completed", FALSE)
             /\ Truthy(Get(session_state, "audit_report", JNone))
        THEN pc' = "completed" /\ UNCHANGED <<session_state, pageOnly>>
        ELSE IF ~Get(session_state, "running_audit", FALSE)
        THEN pc' = "inconsistent" /\ UNCHANGED <<session_state, pageOnly>>
        ELSE IF IsBlank(travel_approval_input) \/ IsBlank(ticket_data_input)
        THEN IF retry_count < max_retries
             THEN /\ session_state' =
                       [audit_data_retry_count |-> retry_count + 1] @@ session_state
                  /\ pc' = "page"
                  /\ UNCHANGED pageOnly
             ELSE /\ session_state' =
                       [running_audit |-> FALSE, loading_sample |-> FALSE]
                         @@ DelKeys(session_state, {"audit_data_retry_count", "audit_request"})
                  /\ pc' = "no_data"
                  /\ UNCHANGED pageOnly
        ELSE IF json_errors # <<>>
        THEN /\ session_state' =
                  [running_audit |-> FALSE,
                   loading_sample |-> FALSE,
                   audit_failed |-> TRUE,
                   json_errors |-> json_errors]
                    @@ DelKeys(started, {"audit_request"})
             /\ pc' = "failed"
             /\ UNCHANGED pageOnly
        ELSE IF Truthy(travel_data) /\ Truthy(ticket_data)
                  /\ DOMAIN extracted.travel_approval # {}
                  /\ Len(extracted.flight_reservations) > 0
        THEN /\ session_state' = started
             /\ travel_approval' = extracted.travel_approval
             /\ flight_reservations' = extracted.flight_reservations
             /\ progress_callback' = TRUE
             /\ pc' = "notify"
             /\ NoRecord
             /\ UNCHANGED <<reverse_fetches, cache_file, now, callers>>
        ELSE /\ session_state' = started
             /\ pc' = "nothing_to_audit"
             /\ UNCHANGED pageOnly

\* Mutant: the report is stored while the audit still counts as running.
StoreReportStillRunning ==
  /\ pc = "done"
  /\ session_state' =
       [audit_report |-> report,
        audit_completed |-> TRUE,
        loading_sample |-> FALSE]
         @@ DelKeys(session_state, {"audit_request"})
  /\ pc' = "completed"
  /\ UNCHANGED pageOnly

\* audit_progress.py:140-163: the report returned is stored
StoreReport ==
  /\ pc = "done"
  /\ session_state' =
       [audit_report |-> report,
        running_audit |-> FALSE,
        audit_completed |-> TRUE,
        loading_sample |-> FALSE]
         @@ DelKeys(session_state, {"audit_request"})
  /\ pc' = "completed"
  /\ UNCHANGED pageOnly

\* audit_failed.py:100-115: the Try Audit Again button of the failed page
TryAuditAgain ==
  /\ pc = "failed"
  /\ \E travel_input \in TravelTexts, ticket_input \in TicketTexts :
       /\ ~(IsBlank(travel_input) \/ IsBlank(ticket_input))
       /\ session_state' =
            [running_audit |-> TRUE,
             audit_failed |-> FALSE,
             json_errors |-> <<>>,
             travel_input_data |-> travel_input,
             ticket_input_data |-> ticket_input]
              @@ session_state
  /\ pc' = "page"
  /\ NoRecord
  /\ UNCHANGED <<flight_reservations, progress_callback, travel_approval,
                 reverse_fetches, cache_file, now, callers>>

\* sidebar.py:160-189: the Reset Data button, shown while no audit runs
ResetData ==
  /\ pc \in {"failed", "completed"}
  /\ ~Get(session_state, "running_audit", FALSE)
  /\ session_state' =
       [sample_travel_data |-> BlankText,
        sample_ticket_data |-> BlankText,
        manual_data_entered |-> FALSE,
        audit_completed |-> FALSE,
        audit_report |-> JNone,
        running_audit |-> FALSE,
        loading_sample |-> FALSE,
        audit_failed |-> FALSE,
        json_errors |-> <<>>,
        just_reset |-> TRUE,
        travel_input |-> BlankText,
        ticket_input |-> BlankText]
         @@ DelKeys(session_state, {"travel_input_data", "ticket_input_data"})
  /\ pc' = "reset"
  /\ NoRecord
  /\ UNCHANGED <<flight_reservations, progress_callback, travel_approval,
                 reverse_fetches, cache_file, now, callers>>

\* app.py:301-305: the page shown after a reset, with the input form
RenderResetSuccess ==
  /\ pc = "reset"
  /\ session_state' = [just_reset |-> FALSE] @@ session_state
  /\ pc' = "form"
  /\ UNCHANGED pageOnly

NextPage ==
  \/ RunAudit
  \/ RenderAuditProgress
  \/ NotifyProgress
  \/ CheckTiming
  \/ CheckIdentity
  \/ CheckRoute
  \/ Aggregate
  \/ StoreReport
  \/ TryAuditAgain
  \/ ResetData
  \/ RenderResetSuccess

SpecPage == InitPage /\ [][NextPage]_vars

\* what the page does by itself: Streamlit reruns the script after
\* st.rerun() and runs it to its end; the buttons wait for the user
ProgramStep ==
  \/ RenderAuditProgress
  \/ NotifyProgress
  \/ CheckTiming
  \/ CheckIdentity
  \/ CheckRoute
  \/ Aggregate
  \/ StoreReport
  \/ RenderResetSuccess

SpecPageFair == InitPage /\ [][NextPage]_vars /\ WF_vars(ProgramStep)

\* ------------------------------------------------------------------------
\* check_timing_compliance on segments around the bounds of the approved
\* period, with a collaborator that follows the rules of the prompt or not
\* ------------------------------------------------------------------------
\* the instants around the bounds of the approved period, in seconds
Instants(approval) ==
  {approval.travelBeginDate - 1, approval.travelBeginDate,
   approval.travelBeginDate + 1, approval.travelEndDate, approval.travelEndDate + 1}

TimedSegments(approval) ==
  {seg \in {[flightNumber |-> "XQ141", departureDate |-> departure, arrivalDate |-> arrival] :
              departure \in Instants(approval), arrival \in Instants(approval)} :
     seg.departureDate <= seg.arrivalDate}

TimingInputs ==
  {<<[bookingReference |-> "BR-1", flights |-> fs]>> :
     fs \in UNION {[1..n -> TimedSegments(valid_travel_approval)] : n \in 0..MaxSegments}}

\* Mutant: a departure at travelBeginDate itself counts as too early.
DepartureTooEarlyExclusive(approval, flight) ==
  flight.departureDate <= approval.travelBeginDate

\* timing_agent.py:9-13, 46-53: the four ways a flight breaks
\* travelBeginDate <= departureDate <= travelEndDate and
\* travelBeginDate <= arrivalDate <= travelEndDate, both bounds inclusive
DepartureTooEarly(approval, flight) ==
  flight.departureDate < approval.travelBeginDate
DepartureTooLate(approval, flight) ==
  flight.departureDate > approval.travelEndDate
ArrivalTooEarly(approval, flight) ==
  flight.arrivalDate < approval.travelBeginDate
ArrivalTooLate(approval, flight) ==
  flight.arrivalDate > approval.travelEndDate

\* timing_agent.py:65-74: the violation record of the declared structure
TimingViolation(approval, flight, issue_type) ==
  [flight_number |-> flight.flightNumber,
   reason |-> Msg("Clear explanation of why this violates the rule", <<>>, <<>>),
   departure_date |-> flight.departureDate,
   arrival_date |-> flight.arrivalDate,
   approved_period |-> <<approval.travelBeginDate, approval.travelEndDate>>,
   issue_type |-> issue_type]

\* the violations of one flight under the rules of the prompt
FlightViolations(approval, flight) ==
  (IF DepartureTooEarly(approval, flight)
   THEN <<TimingViolation(approval, flight, "departure_too_early")>> ELSE <<>>)
    \o (IF DepartureTooLate(approval, flight)
        THEN <<TimingViolation(approval, flight, "departure_too_late")>> ELSE <<>>)
    \o (IF ArrivalTooEarly(approval, flight)
        THEN <<TimingViolation(approval, flight, "arrival_too_early")>> ELSE <<>>)
    \o (IF ArrivalTooLate(approval, flight)
        THEN <<TimingViolation(approval, flight, "arrival_too_late")>> ELSE <<>>)

RECURSIVE TimingViolations(_, _)
TimingViolations(approval, segs) ==
  IF segs = <<>> THEN <<>>
  ELSE FlightViolations(approval, Head(segs).flight)
         \o TimingViolations(approval, Tail(segs))

\* timing_agent.py:59-86: the answer of a collaborator that applies the
\* rules of the prompt and fills the declared structure
RuleAnswer(approval, reservations) ==
  LET violations == TimingViolations(approval, Segments(reservations))
  IN [rule_name |-> "Flight Ticket Timing",
      status |-> IF violations = <<>> THEN "COMPLIANT" ELSE "NON_COMPLIANT",
      message |-> Msg("Brief summary of findings for the user", <<>>, <<>>),
      details |-> [violations |-> violations]]

\* the answer with the verdict the rules do not give
WrongAnswer(approval, reservations) ==
  LET answer == RuleAnswer(approval, reservations)
  IN IF answer.status = "COMPLIANT"
     THEN [answer EXCEPT !.status = "NON_COMPLIANT",
                         !.details = [violations |-> <<[flight_number |-> "XQ141",
                                                        issue_type |-> "arrival_too_late"]>>]]
     ELSE [answer EXCEPT !.status = "COMPLIANT", !.details = [violations |-> <<>>]]

\* llm.invoke with a collaborator that follows the prompt: the answer as a
\* JSON text or as an object
AbidingBehaviours(approval, reservations) ==
  {[kind |-> "response",
    content |-> StrContent(Text("json", JDict(RuleAnswer(approval, reservations))))],
   [kind |-> "response", content |-> JDict(RuleAnswer(approval, reservations))]}

\* llm.invoke in general: the collaborator may also fail, wrap its answer
\* in a code fence, or give the other verdict
TimingBehaviours(approval, reservations) ==
  AbidingBehaviours(approval, reservations)
    \cup {[kind |-> "raise", error |-> "APIConnectionError"],
          [kind |-> "response",
           content |-> StrContent(Text("fenced", JDict(RuleAnswer(approval, reservations))))],
          [kind |-> "response",
           content |-> StrContent(Text("json", JDict(WrongAnswer(approval, reservations))))]}

InitTiming ==
  /\ pc = "timing"
  /\ flight_reservations \in TimingInputs
  /\ progress_callback = FALSE
  /\ i = 0
  /\ results = <<>>
  /\ events = <<>>
  /\ llm_calls = <<>>
  /\ fetches = <<>>
  /\ analysis = JNone
  /\ report = JNone
  /\ Alone

\* timing_agent.py:94-175
CallTimingOnPeriod ==
  /\ pc = "timing"
  /\ \E behaviour \in TimingBehaviours(travel_approval, flight_reservations) :
       /\ llm_calls' = <<[rule |-> "timing", behaviour |-> behaviour]>>
       /\ Finished(check_timing_compliance(behaviour), "timing_done")
  /\ UNCHANGED <<flight_reservations, progress_callback, i, events, fetches,
                 analysis, report>>
  /\ UNCHANGED surroundings

NextTiming == CallTimingOnPeriod

SpecTiming == InitTiming /\ [][NextTiming]_vars

\* ------------------------------------------------------------------------
\* check_passenger_identity on ticketed passengers that match the approved
\* list or not, with a collaborator that follows the rules of the prompt
\* or not
\* ------------------------------------------------------------------------
\* tests/test_compliance.py:23-32: the approved passenger
ApprovedPassenger == [name |-> "Mr. Jhon", surname |-> "Doe", employeeId |-> "00000001"]

\* tests/test_compliance.py:16-36 with its passengerList
approval_with_passengers ==
  [passengerList |-> <<ApprovedPassenger>>] @@ valid_travel_approval

\* tests/test_compliance.py:64-73, 141-150, 166-167: the ticketed passengers
TicketedPassengers ==
  { ApprovedPassenger,
    [name |-> "MR. JHON", surname |-> "DOE", employeeId |-> "00000001"],
    [name |-> "Mr. Jhon", surname |-> "Doe", employeeId |-> "99999999"],
    [name |-> "Jane", surname |-> "Smith", employeeId |-> "00000002"],
    [name |-> "Jane", surname |-> "Smith", employeeId |-> "00000001"] }

\* a reservation lists a person once
IdentityInputs ==
  {<<[bookingId |-> "TIC-457855", passengers |-> ps]>> :
     ps \in {qs \in UNION {[1..n -> TicketedPassengers] : n \in 0..MaxPassengers} :
               \A j, k \in 1..Len(qs) : j # k => qs[j] # qs[k]}}

\* str.lower() on the names of the model
Lower(s) ==
  CASE s \in {"Mr. Jhon", "MR. JHON"} -> "mr. jhon"
    [] s \in {"Doe", "DOE"} -> "doe"
    [] s = "Jane" -> "jane"
    [] s = "Smith" -> "smith"
    [] OTHER -> s

\* Mutant: names are compared as written.
NameMatchesAsWritten(approved, ticketed) ==
  approved.name = ticketed.name /\ approved.surname = ticketed.surname

\* identity_agent.py:13-17, rule 3: names match, case-insensitive
NameMatches(approved, ticketed) ==
  /\ Lower(approved.name) = Lower(ticketed.name)
  /\ Lower(approved.surname) = Lower(ticketed.surname)

\* identity_agent.py:55-63: the violation record of the declared structure
IdentityViolation(reservation, ticketed, issue_type) ==
  [passenger_name |-> <<ticketed.name, ticketed.surname>>,
   reason |-> Msg("Clear explanation of why this passenger is not compliant", <<>>, <<>>),
   ticket_employee_id |-> ticketed.employeeId,
   booking_reference |-> reservation.bookingId,
   issue_type |-> issue_type]

\* identity_agent.py:13-17: the violations of one ticketed passenger under
\* the rules of the prompt, one record at most
PassengerViolations(approval, reservation, ticketed) ==
  LET approved == approval.passengerList
      same_id == {k \in 1..Len(approved) : approved[k].employeeId = ticketed.employeeId}
      same_name == {k \in 1..Len(approved) : NameMatches(approved[k], ticketed)}
  IN IF same_id \cap same_name # {} THEN <<>>
     ELSE IF same_id # {}
     THEN <<IdentityViolation(reservation, ticketed, "name_mismatch")>>
     ELSE IF same_name # {}
     THEN <<IdentityViolation(reservation, ticketed, "employee_id_mismatch")>>
     ELSE <<IdentityViolation(reservation, ticketed, "unauthorized_passenger")>>

RECURSIVE IdentityViolations(_, _, _)
IdentityViolations(approval, reservation, passengers) ==
  IF passengers = <<>> THEN <<>>
  ELSE PassengerViolations(approval, reservation, Head(passengers))
         \o IdentityViolations(approval, reservation, Tail(passengers))

\* identity_agent.py:50-77: the answer of a collaborator that applies the
\* rules of the prompt and fills the declared structure
IdentityRuleAnswer(approval, reservations) ==
  LET violations ==
        IdentityViolations(approval, reservations[1], reservations[1].passengers)
  IN [rule_name |-> "Passenger Identity",
      status |-> IF violations = <<>> THEN "COMPLIANT" ELSE "NON_COMPLIANT",
      message |-> Msg("Brief summary of findings for the user", <<>>, <<>>),
      details |-> [violations |-> violations]]

\* llm.invoke with a collaborator that follows the prompt: the answer as a
\* JSON text or as an object
IdentityAbidingBehaviours(approval, reservations) ==
  {[kind |-> "response",
    content |-> StrContent(Text("json", JDict(IdentityRuleAnswer(approval, reservations))))],
   [kind |-> "response", content |-> JDict(IdentityRuleAnswer(approval, reservations))]}

\* llm.invoke in general: the collaborator may also fail, wrap its answer
\* in a code fence, answer with a list, or find nothing wrong
IdentityBehaviours(approval, reservations) ==
  IdentityAbidingBehaviours(approval, reservations)
    \cup {[kind |-> "raise", error |-> "APIConnectionError"],
          [kind |-> "response",
           content |-> StrContent(Text("fenced",
                                       JDict(IdentityRuleAnswer(approval, reservations))))],
          [kind |-> "response",
           content |-> StrContent(Text("json",
                         JList(<<JDict(IdentityRuleAnswer(approval, reservations))>>)))],
          [kind |-> "response",
           content |-> StrContent(Text("json", JDict(CompliantAnswer)))]}

InitIdentity ==
  /\ pc = "identity"
  /\ flight_reservations \in IdentityInputs
  /\ progress_callback = FALSE
  /\ i = 0
  /\ results = <<>>
  /\ events = <<>>
  /\ llm_calls = <<>>
  /\ fetches = <<>>
  /\ analysis = JNone
  /\ report = JNone
  /\ travel_approval = approval_with_passengers
  /\ reverse_fetches = <<>>
  /\ session_state = <<>>
  /\ cache_file = NoFile
  /\ now = 0
  /\ callers = <<>>

\* identity_agent.py:88-161
CallIdentityOnPassengers ==
  /\ pc = "identity"
  /\ \E behaviour \in IdentityBehaviours(travel_approval, flight_reservations) :
       /\ llm_calls' = <<[rule |-> "identity", behaviour |-> behaviour]>>
       /\ Finished(check_passenger_identity(behaviour), "identity_done")
  /\ UNCHANGED <<flight_reservations, progress_callback, i, events, fetches,
                 analysis, report>>
  /\ UNCHANGED surroundings

NextIdentity == CallIdentityOnPassengers

SpecIdentity == InitIdentity /\ [][NextIdentity]_vars

\* ------------------------------------------------------------------------
\* check_route_compliance on reservations that name their account
\* ------------------------------------------------------------------------
\* tests/test_compliance.py:39-75, 210-223: a reservation with its
\* accountName and its segments
AccountReservations ==
  {<<[bookingId |-> "TIC-457855", accountName |-> account, flights |-> fs]>> :
     account \in {"SunExpress", "Turkish Airlines"},
     fs \in UNION {[1..n -> {SegXQ, SegTK, SegTKUnserved}] : n \in 1..MaxSegments}}

InitAccount ==
  /\ pc = "account"
  /\ flight_reservations \in AccountReservations
  /\ progress_callback = FALSE
  /\ i = 0
  /\ results = <<>>
  /\ events = <<>>
  /\ llm_calls = <<>>
  /\ fetches = <<>>
  /\ analysis = JNone
  /\ report = JNone
  /\ Alone

\* route_agent.py:383-410
CallRouteCheckOnAccount ==
  /\ pc = "account"
  /\ \E plan \in FetchPlans(flight_reservations) :
       /\ fetches' = plan
       /\ analysis' = analyze_route_compliance_with_api(flight_reservations, plan)
       /\ Finished(check_route_compliance(flight_reservations, plan), "account_done")
  /\ UNCHANGED <<flight_reservations, progress_callback, i, events, llm_calls, report>>
  /\ UNCHANGED surroundings

NextAccount == CallRouteCheckOnAccount

SpecAccount == InitAccount /\ [][NextAccount]_vars

\* orchestrator.py:167-178: the word a summary text opens with, before the
\* colon
SummaryHeading(summary) ==
  CASE summary.template = "SYSTEM ERROR: {} system errors occurred" -> "SYSTEM ERROR"
    [] summary.template = "VIOLATION: {} critical violations found" -> "VIOLATION"
    [] summary.template = "WARNING: {} issues require attention" -> "WARNING"
    [] summary.template = "PASSED: All compliance rules satisfied" -> "PASSED"

\* ------------------------------------------------------------------------
\* check_sunexpress_route_availability called on its own, over datasets
\* whose origin entry holds any bounded list of routes
\* ------------------------------------------------------------------------
\* the entries a routes list of the dataset may hold
RouteEntryPool ==
  { [iata |-> "FRA", km |-> 2300, min |-> 215,
     carriers |-> <<[iata |-> "LH", name |-> "Lufthansa"],
                    [iata |-> "XQ", name |-> "SunExpress"]>>],
    [iata |-> "FRA", km |-> 2300, min |-> 215,
     carriers |-> <<[iata |-> "LH", name |-> "Lufthansa"]>>],
    [iata |-> "FRA", km |-> 2300, min |-> 215],
    [iata |-> "IST", km |-> 480, min |-> 80,
     carriers |-> <<[iata |-> "XQ", name |-> "SunExpress"]>>] }

RouteLists == UNION {[1..n -> RouteEntryPool] : n \in 0..MaxRoutes}

\* datasets with the origin AYT, with or without the destination FRA, and
\* datasets without the origin
OriginDatasets ==
  {[AYT |-> [routes |-> rs]] : rs \in RouteLists}
    \cup {[AYT |-> [routes |-> rs], FRA |-> RouteData["FRA"]] : rs \in RouteLists}
    \cup {[AYT |-> [name |-> "Antalya"]], [FRA |-> RouteData["FRA"]], [IST |-> RouteData["IST"]]}

\* what fetch_airline_route_data gives the lookup (route_agent.py:157-169)
AvailabilityFetches ==
  {[kind |-> "data", data |-> d] : d \in OriginDatasets}
    \cup (FetchOutcomes \ {[kind |-> "data", data |-> RouteData]})

InitAvailability ==
  /\ pc = "lookup"
  /\ flight_reservations = <<>>
  /\ progress_callback = FALSE
  /\ i = 0
  /\ results = <<>>
  /\ \E o \in {"AYT", "ayt"}, d \in {"FRA", "fra"} :
       events = <<[ev |-> "call", origin_airport |-> o, destination_airport |-> d,
                   travel_date |-> <<"2025-06-24">>]>>
  /\ llm_calls = <<>>
  /\ fetches \in {<<f>> : f \in AvailabilityFetches}
  /\ analysis = JNone
  /\ report = JNone
  /\ Alone

\* route_agent.py:140-244
CallAvailability ==
  /\ pc = "lookup"
  /\ analysis' = check_sunexpress_route_availability(
                   events[1].origin_airport, events[1].destination_airport,
                   events[1].travel_date, fetches[1])
  /\ pc' = "lookup_done"
  /\ UNCHANGED <<flight_reservations, progress_callback, i, results, events,
                 llm_calls, fetches, report>>
  /\ UNCHANGED surroundings

NextAvailability == CallAvailability

SpecAvailability == InitAvailability /\ [][NextAvailability]_vars

\* ------------------------------------------------------------------------
\* Properties
\* ------------------------------------------------------------------------
StatusesOf(rs) == {rs[k]["status"] : k \in 1..Len(rs)}

SystemErrorClass == {"SYSTEM_ERROR", "json_parse_error", "llm_call_error"}

PrecedenceStatus(statuses) ==
  IF statuses \cap SystemErrorClass # {} THEN "SYSTEM_ERROR"
  ELSE IF "NON_COMPLIANT" \in statuses THEN "NON_COMPLIANT"
  ELSE IF "WARNING" \in statuses THEN "WARNING"
  ELSE "COMPLIANT"

\* C1: the overall status of a report is decided by the set of the three
\* per-rule statuses alone, with the precedence system error, then
\* NON_COMPLIANT, then WARNING, then COMPLIANT; being a function of the set,
\* it does not change when the three results are permuted.
C1_OverallStatusPrecedence ==
  pc = "done" =>
    /\ Len(report.map.results) = 3
    /\ report.map.overall_status = PrecedenceStatus(StatusesOf(report.map.results))

C1_Witness ==
  /\ pc = "done"
  /\ results[1]["status"] = "NON_COMPLIANT"
  /\ results[2]["status"] = "WARNING"
  /\ results[3]["status"] = "llm_call_error"
  /\ report.map.overall_status = "SYSTEM_ERROR"

IsCallOrReturn(e) == e.ev \in {"call", "return"}
IsNotify(e) == e.ev = "notify"

MethodOrder ==
  <<"check_timing_compliance", "check_passenger_identity", "check_route_compliance">>

\* the calls and returns of a complete single pass
SinglePass ==
  [k \in 1..6 |-> [ev |-> IF k % 2 = 1 THEN "call" ELSE "return",
                   method |-> MethodOrder[(k + 1) \div 2]]]

IsPrefix(s, t) == Len(s) <= Len(t) /\ \A k \in 1..Len(s) : s[k] = t[k]

\* C2: the three checkers are called once each, in the order Timing,
\* Identity, Route, each after the previous one returned; no result stops
\* the pass or causes a second call; the report holds exactly the three
\* values returned, in that order.
C2_SinglePassInOrder ==
  /\ IsPrefix(SelectSeq(events, IsCallOrReturn), SinglePass)
  /\ IsPrefix([k \in 1..Len(llm_calls) |-> llm_calls[k].rule], <<"timing", "identity">>)
  /\ pc = "done" =>
       /\ SelectSeq(events, IsCallOrReturn) = SinglePass
       /\ Len(llm_calls) = 2
       /\ report.map.results =
            << check_timing_compliance(llm_calls[1].behaviour).value,
               check_passenger_identity(llm_calls[2].behaviour).value,
               check_route_compliance(flight_reservations, fetches).value >>

C2_Witness ==
  /\ pc = "done"
  /\ Len(report.map.results) = 3
  /\ report.map.results[1]["status"] = "llm_call_error"
  /\ report.map.results[2]["status"] = "NON_COMPLIANT"
  /\ report.map.results[3]["status"] = "COMPLIANT"

\* C3: whatever the collaborator and the route data source do, every
\* checker returns a mapping with a status key and no exception leaves a
\* checker.
C3_CheckersAlwaysReturnStatus ==
  /\ pc # "raised"
  /\ \A k \in 1..Len(results) : "status" \in DOMAIN results[k]

C3_Witness ==
  /\ pc = "done"
  /\ llm_calls[1].behaviour.kind = "raise"
  /\ llm_calls[2].behaviour.kind = "response"
  /\ llm_calls[2].behaviour.content = StrContent(Text("prose", JNone))
  /\ \E k \in 1..Len(fetches) : fetches[k].kind = "not_mapping"
  /\ results[3]["status"] = "SYSTEM_ERROR"

\* the notification the observer is owed for checker k
NotificationFor(k) ==
  [ev |-> "notify", current |-> k, total |-> 3,
   current_job |-> <<"Flight Ticket Timing", "Passenger Identity",
                     "SunExpress Route Compliance">>[k],
   description |-> compliance_checks[k].description,
   icon |-> compliance_checks[k].icon]

PositionOf(e) == CHOOSE p \in 1..Len(events) : events[p] = e

ObservedPass ==
  [k \in 1..9 |->
     IF k % 3 = 1 THEN NotificationFor((k + 2) \div 3)
     ELSE [ev |-> IF k % 3 = 2 THEN "call" ELSE "return",
           method |-> MethodOrder[(k + 2) \div 3]]]

Segs == Segments(flight_reservations)

Origin(k) == departure_airport_of(Segs[k].flight)
Destination(k) == arrival_airport_of(Segs[k].flight)

\* XQ is among the carriers of the dataset's route origin -> destination
ServedByXQ(origin, destination) ==
  /\ Upper(origin) \in DOMAIN RouteData
  /\ LET routes == RouteData[Upper(origin)].routes
     IN \E r \in 1..Len(routes) :
          /\ routes[r].iata = Upper(destination)
          /\ \E c \in 1..Len(routes[r].carriers) : routes[r].carriers[c].iata = "XQ"

AllDataAvailable == \A k \in 1..Len(fetches) : fetches[k].kind = "data"

\* segment k ends the analysis with an exception
SegmentRaises(k) ==
  /\ ~IsSunExpressFlight(Segs[k].flight)
  /\ \/ travel_date_of(departure_date_of(Segs[k].flight)).raised
     \/ fetches[k].kind = "not_mapping"

\* the loop gets as far as segment k
Reached(k) == \A j \in 1..(k - 1) : ~SegmentRaises(j)

\* the data source fails the lookup of segment k: the fetch fails, or the
\* entry of the origin cannot be processed
FetchFails(k) ==
  \/ fetches[k].kind = "error"
  \/ fetches[k].kind = "malformed" /\ Upper(Origin(k)) \in fetches[k].keys

LookupFailedAt(k) == Reached(k) /\ LooksUp(Segs[k].flight) /\ FetchFails(k)

LookupAnsweredAt(k) ==
  /\ Reached(k)
  /\ LooksUp(Segs[k].flight)
  /\ fetches[k].kind \in {"data", "malformed"}
  /\ ~FetchFails(k)

\* segment k is flown on another carrier on a route XQ is found to serve
ViolationAt(k) ==
  /\ LookupAnsweredAt(k)
  /\ fetches[k].kind = "data"
  /\ ServedByXQ(Origin(k), Destination(k))

ViolationPositions == SelectSeq([k \in 1..Len(Segs) |-> k], ViolationAt)
FailedPositions == SelectSeq([k \in 1..Len(Segs) |-> k], LookupFailedAt)

ExpectedViolations ==
  LET at == ViolationPositions
  IN [n \in 1..Len(at) |-> [actual_airline |-> airline_code_of(Segs[at[n]].flight),
                            route |-> RouteText(Origin(at[n]), Destination(at[n])),
                            booking_reference |-> Segs[at[n]].booking_ref]]

ReportedViolations(result) ==
  LET vs == result["details"]["violations"]
  IN [n \in 1..Len(vs) |-> [actual_airline |-> vs[n].actual_airline,
                            route |-> vs[n].route,
                            booking_reference |-> vs[n].booking_reference]]

ExpectedDataErrors ==
  LET at == FailedPositions
  IN [n \in 1..Len(at) |-> RouteText(Origin(at[n]), Destination(at[n]))]

ReportedDataErrors(result) ==
  LET data_errors == result["details"]["data_errors"]
  IN IF data_errors.type = "list"
     THEN [n \in 1..Len(data_errors.items) |-> data_errors.items[n].route]
     ELSE <<>>

\* C5 as stated: with route data available for every lookup, the analysis
\* emits, in segment order, exactly one violation for each segment that is
\* not flown on XQ and whose route XQ serves, with that segment's carrier
\* code as actual_airline, and none for any other segment.
C5_OneViolationPerServedSegment ==
  (pc = "route_done" /\ AllDataAvailable) =>
    /\ ~analysis.raised
    /\ ReportedViolations(analysis.value) = ExpectedViolations

\* C6 as first stated: after a failed lookup the status is UNKNOWN only if
\* no segment could be evaluated and no violation was found; it is
\* NON_COMPLIANT if a violation was determined for another segment; in
\* both cases data_errors lists every failed lookup.
C6_UnknownOnlyIfNothingEvaluated ==
  (pc = "route_done" /\ \E k \in 1..Len(Segs) : LookupFailedAt(k)) =>
    /\ results[1]["status"] = "UNKNOWN" =>
         /\ \A k \in 1..Len(Segs) : ~LookupAnsweredAt(k)
         /\ \A k \in 1..Len(Segs) : ~ViolationAt(k)
    /\ (\E k \in 1..Len(Segs) : ViolationAt(k)) => results[1]["status"] = "NON_COMPLIANT"
    /\ results[1]["status"] \in {"UNKNOWN", "NON_COMPLIANT"} =>
         ReportedDataErrors(results[1]) = ExpectedDataErrors

\* C6 (amended): after a failed lookup, a result the analysis returns is
\* UNKNOWN exactly when no violation was found, whether or not other
\* segments were evaluated, and NON_COMPLIANT exactly when a violation was
\* determined for another segment; in both cases data_errors lists every
\* failed lookup in order.  When a later segment makes the analysis raise,
\* the Route result is SYSTEM_ERROR and carries no data_errors.
C6_UnknownIffNoViolation ==
  (pc = "route_done" /\ \E k \in 1..Len(Segs) : LookupFailedAt(k)) =>
    IF analysis.raised
    THEN /\ results[1]["status"] = "SYSTEM_ERROR"
         /\ "data_errors" \notin DOMAIN results[1]["details"]
    ELSE /\ results[1]["status"] \in {"UNKNOWN", "NON_COMPLIANT"}
         /\ results[1]["status"] = "NON_COMPLIANT" <=> \E k \in 1..Len(Segs) : ViolationAt(k)
         /\ ReportedDataErrors(results[1]) = ExpectedDataErrors

C6_Witness ==
  /\ pc = "route_done"
  /\ results[1]["status"] = "UNKNOWN"
  /\ \E k \in 1..Len(Segs) : LookupFailedAt(k)
  /\ \E k \in 1..Len(Segs) : LookupAnsweredAt(k)

\* C7: a lookup the data source fails comes back as a typed error
\* (api_success false with an api_error) and does not raise; the segment
\* yields no violation, so the violations are exactly those of the
\* segments whose lookup was answered; and a result with a failed lookup
\* is never COMPLIANT.
C7_FailedLookupIsUnknown ==
  pc = "route_done" =>
    /\ \A k \in 1..Len(Segs) :
         (LooksUp(Segs[k].flight) /\ FetchFails(k)) =>
           LET looked == check_sunexpress_route_availability(
                           Origin(k), Destination(k),
                           travel_date_of(departure_date_of(Segs[k].flight)).value,
                           fetches[k])
           IN /\ ~looked.raised
              /\ "api_success" \in DOMAIN looked.value
              /\ looked.value["api_success"] = FALSE
              /\ "api_error" \in DOMAIN looked.value
    /\ Len(results[1]["details"]["violations"]) <= Len(ExpectedViolations)
    /\ ~analysis.raised => ReportedViolations(results[1]) = ExpectedViolations
    /\ (\E k \in 1..Len(Segs) : LookupFailedAt(k)) => results[1]["status"] # "COMPLIANT"

C7_Witness ==
  /\ pc = "route_done"
  /\ results[1]["status"] = "UNKNOWN"
  /\ results[1]["details"]["violations"] = <<>>
  /\ \E k \in 1..Len(Segs) :
       /\ LookupFailedAt(k)
       /\ ServedByXQ(Origin(k), Destination(k))

\* C8 as stated: whatever fields a segment lacks, the analysis does not
\* raise and the Route result is not SYSTEM_ERROR (the data source
\* answering every lookup with a mapping or a typed error).
C8_MissingFieldsNeverRaise ==
  (pc = "route_done" /\ \A k \in 1..Len(fetches) : fetches[k].kind # "not_mapping") =>
    /\ ~analysis.raised
    /\ results[1]["status"] # "SYSTEM_ERROR"

\* the value a checker gets out of the collaborator's answer
ParsedAnswer(behaviour) ==
  IF "text" \in DOMAIN behaviour.content
  THEN behaviour.content.text.doc
  ELSE behaviour.content

Parses(behaviour) ==
  /\ behaviour.kind = "response"
  /\ "text" \in DOMAIN behaviour.content => behaviour.content.text.form = "json"

FirstMapping(items) ==
  items[CHOOSE j \in 1..Len(items) :
          items[j].type = "dict" /\ \A h \in 1..(j - 1) : items[h].type # "dict"].map

IsInvalidFormat(result) ==
  /\ result["status"] = "SYSTEM_ERROR"
  /\ "error_type" \in DOMAIN result["details"]
  /\ result["details"]["error_type"] = "invalid_format"

\* C9 as stated: when the parsed answer is a sequence holding at least one
\* mapping, the Timing and the Identity checker build their result from the
\* first mapping of the sequence and do not report an invalid format.
C9_FirstMappingOfSequence ==
  (pc = "checker_done" /\ Parses(llm_calls[1].behaviour)) =>
    LET answer == ParsedAnswer(llm_calls[1].behaviour)
    IN (answer.type = "list" /\ \E j \in 1..Len(answer.items) : answer.items[j].type = "dict") =>
         /\ ~IsInvalidFormat(results[1])
         /\ \A key \in DOMAIN FirstMapping(answer.items) \ {"message", "rule_name"} :
              /\ key \in DOMAIN results[1]
              /\ results[1][key] = FirstMapping(answer.items)[key]

\* C10 as stated: every result in a report has a details.violations
\* sequence (empty when none was supplied).
C10_ViolationsAlwaysPresent ==
  pc = "done" =>
    \A k \in 1..Len(report.map.results) :
      /\ "details" \in DOMAIN report.map.results[k]
      /\ "violations" \in DOMAIN report.map.results[k]["details"]

\* ------------------------------------------------------------------------
\* The timing and identity checkers' answers, as the properties read them
\* ------------------------------------------------------------------------
RuleNameOf(rule) ==
  IF rule = "timing" THEN "Flight Ticket Timing" ELSE "Passenger Identity"

\* number of collaborator calls made for a rule
CallsFor(rule) == Cardinality({k \in 1..Len(llm_calls) : llm_calls[k].rule = rule})

\* the list tolerance of the checker of `rule` accepts the parsed answer
AcceptedSequence(rule, answer) == rule = "timing" /\ IsListOfDict(answer)

\* the text of a message mentions `s` among its format arguments
Mentions(message, s) == \E k \in 1..Len(message.strs) : message.strs[k] = s

\* C11: a parsed answer that is a mapping without a status key comes back
\* as that mapping with status SYSTEM_ERROR, the message "Missing status
\* field in LLM response" and the checker's own rule_name, every other key
\* as the collaborator gave it; and no checker result lacks a status key.
C11_MissingStatusInjected ==
  pc = "checker_done" =>
    /\ "status" \in DOMAIN results[1]
    /\ LET call == llm_calls[1]
           answer == ParsedAnswer(call.behaviour)
       IN (Parses(call.behaviour) /\ answer.type = "dict"
             /\ "status" \notin DOMAIN answer.map) =>
            /\ results[1]["status"] = "SYSTEM_ERROR"
            /\ results[1]["message"] = Msg("Missing status field in LLM response", <<>>, <<>>)
            /\ results[1]["rule_name"] = RuleNameOf(call.rule)
            /\ DOMAIN results[1] = DOMAIN answer.map \cup {"status", "message", "rule_name"}
            /\ \A key \in DOMAIN answer.map \ {"status", "message", "rule_name"} :
                 results[1][key] = answer.map[key]

C11_Witness ==
  /\ pc = "checker_done"
  /\ llm_calls[1].rule = "identity"
  /\ Parses(llm_calls[1].behaviour)
  /\ ParsedAnswer(llm_calls[1].behaviour) = JDict(NoStatusAnswer)
  /\ results[1]["status"] = "SYSTEM_ERROR"
  /\ results[1]["details"] = [violations |-> <<Violation>>]

\* C12 as first stated: a parsed answer that is neither a mapping nor a
\* sequence the checker's list tolerance accepts gives a SYSTEM_ERROR
\* result whose message names the rule and the type received.
C12_MessageNamesRuleAndType ==
  pc = "checker_done" =>
    LET call == llm_calls[1]
        answer == ParsedAnswer(call.behaviour)
    IN (Parses(call.behaviour) /\ answer.type # "dict"
          /\ ~AcceptedSequence(call.rule, answer)) =>
         /\ results[1]["status"] = "SYSTEM_ERROR"
         /\ Mentions(results[1]["message"], answer.type)
         /\ Mentions(results[1]["message"], RuleNameOf(call.rule))

\* C12 (amended): such an answer gives a SYSTEM_ERROR result whose
\* rule_name is the rule being checked, whose details.error_type is
\* invalid_format and whose message names the type received, not the rule.
C12_InvalidFormatNamesType ==
  pc = "checker_done" =>
    LET call == llm_calls[1]
        answer == ParsedAnswer(call.behaviour)
    IN (Parses(call.behaviour) /\ answer.type # "dict"
          /\ ~AcceptedSequence(call.rule, answer)) =>
         /\ results[1]["status"] = "SYSTEM_ERROR"
         /\ results[1]["rule_name"] = RuleNameOf(call.rule)
         /\ results[1]["details"]["error_type"] = "invalid_format"
         /\ results[1]["message"] =
              Msg("LLM returned invalid format (expected dictionary, got {})",
                  <<>>, <<answer.type>>)
         /\ ~Mentions(results[1]["message"], RuleNameOf(call.rule))

C12_Witness ==
  /\ pc = "checker_done"
  /\ llm_calls[1].rule = "timing"
  /\ Parses(llm_calls[1].behaviour)
  /\ ParsedAnswer(llm_calls[1].behaviour) = JNone
  /\ results[1]["status"] = "SYSTEM_ERROR"
  /\ Mentions(results[1]["message"], "NoneType")

\* C13: a collaborator call that raises gives that rule the status
\* llm_call_error with details.error_type llm_call_error; the collaborator
\* is called at most once per rule in an audit; and the report of such an
\* audit has overall_status SYSTEM_ERROR.
C13_CallErrorNotRetried ==
  /\ CallsFor("timing") <= 1
  /\ CallsFor("identity") <= 1
  /\ \A k \in 1..Len(llm_calls) :
       (llm_calls[k].behaviour.kind = "raise" /\ k <= Len(results)) =>
         /\ results[k]["rule_name"] = RuleNameOf(llm_calls[k].rule)
         /\ results[k]["status"] = "llm_call_error"
         /\ results[k]["details"]["error_type"] = "llm_call_error"
  /\ (pc = "done" /\ \E k \in 1..Len(llm_calls) : llm_calls[k].behaviour.kind = "raise") =>
       /\ Len(llm_calls) = 2
       /\ report.map.overall_status = "SYSTEM_ERROR"

C13_Witness ==
  /\ pc = "done"
  /\ llm_calls[1].behaviour.kind = "raise"
  /\ llm_calls[2].behaviour.kind = "response"
  /\ results[1]["status"] = "llm_call_error"
  /\ results[2]["status"] = "COMPLIANT"
  /\ results[3]["status"] = "COMPLIANT"
  /\ report.map.overall_status = "SYSTEM_ERROR"

\* the collaborator answered with a text that is not JSON
Unparseable(behaviour) ==
  /\ behaviour.kind = "response"
  /\ "text" \in DOMAIN behaviour.content
  /\ behaviour.content.text.form # "json"

\* C14: a text that does not parse as JSON gives that rule the status
\* json_parse_error with details.raw_response the very content the
\* collaborator returned, and the collaborator is not called again.
C14_RawResponsePreserved ==
  /\ \A k \in 1..Len(llm_calls) :
       /\ \A j \in 1..Len(llm_calls) : llm_calls[j].rule = llm_calls[k].rule => j = k
       /\ (Unparseable(llm_calls[k].behaviour) /\ k <= Len(results)) =>
            /\ results[k]["status"] = "json_parse_error"
            /\ results[k]["details"]["raw_response"] = llm_calls[k].behaviour.content
  /\ pc = "done" => Len(llm_calls) = 2

C14_Witness ==
  /\ pc = "done"
  /\ Unparseable(llm_calls[1].behaviour)
  /\ Unparseable(llm_calls[2].behaviour)
  /\ llm_calls[1].behaviour.content = StrContent(Text("fenced", JDict(CompliantAnswer)))
  /\ llm_calls[2].behaviour.content = StrContent(Text("prose", JNone))
  /\ results[1]["status"] = "json_parse_error"
  /\ results[1]["details"]["raw_response"] = StrContent(Text("fenced", JDict(CompliantAnswer)))
  /\ results[2]["details"]["raw_response"] = StrContent(Text("prose", JNone))

\* ------------------------------------------------------------------------
\* The reverse direction
\* ------------------------------------------------------------------------
\* XQ is among the carriers of an entry airport -> target of `data`
ServesInDataset(data, airport, target) ==
  /\ airport \in DOMAIN data
  /\ \E r \in 1..Len(data[airport].routes) :
       /\ data[airport].routes[r].iata = target
       /\ "carriers" \in DOMAIN data[airport].routes[r]
       /\ \E c \in 1..Len(data[airport].routes[r].carriers) :
            data[airport].routes[r].carriers[c].iata = "XQ"

\* the destination_served flag the lookup of segment k records under `plan`
RecordedReverse(plan, k) ==
  check_sunexpress_route_availability(
    Origin(k), Destination(k),
    travel_date_of(departure_date_of(Segs[k].flight)).value,
    plan[k]).value["destination_served"]

DifferInReverse(k) ==
  /\ LooksUp(Segs[k].flight)
  /\ ServesInDataset(fetches[k].data, Upper(Destination(k)), Upper(Origin(k)))
       # ServesInDataset(reverse_fetches[k].data, Upper(Destination(k)), Upper(Origin(k)))

\* C15: two runs of check_route_compliance on datasets that differ only in
\* the entries of the reverse direction of the audited segments return the
\* same status and the same violations, while each lookup records in
\* destination_served whether its dataset has XQ on the reverse direction.
C15_ReverseDirectionIgnored ==
  pc = "reverse_done" =>
    /\ results[1]["status"] = results[2]["status"]
    /\ results[1]["details"]["violations"] = results[2]["details"]["violations"]
    /\ \A k \in 1..Len(Segs) :
         (LooksUp(Segs[k].flight) /\ Upper(Origin(k)) \in DOMAIN RouteData) =>
           /\ RecordedReverse(fetches, k)
                = ServesInDataset(fetches[k].data, Upper(Destination(k)), Upper(Origin(k)))
           /\ RecordedReverse(reverse_fetches, k)
                = ServesInDataset(reverse_fetches[k].data, Upper(Destination(k)),
                                  Upper(Origin(k)))

C15_Witness ==
  /\ pc = "reverse_done"
  /\ results[1]["status"] = "NON_COMPLIANT"
  /\ results[2]["status"] = "NON_COMPLIANT"
  /\ \E k \in 1..Len(Segs) : DifferInReverse(k) /\ ViolationAt(k)

\* ------------------------------------------------------------------------
\* The cache file
\* ------------------------------------------------------------------------
TypedErrors ==
  { [kind |-> "error", error |-> "Failed to fetch airline route data"],
    [kind |-> "error", error |-> "Failed to parse airline route data"] }

CompleteDataset == [kind |-> "data", data |-> RouteData]

\* the file holds a full copy of the dataset
HoldsDataset(file) == file.exists /\ file.content = [k \in 1..MaxChunks |-> k]

\* C16: whatever the interleaving of two calls and wherever a cache write
\* stops, no call raises and a call that returns gives back the complete
\* dataset or a typed error, never a part of the data; a call that read a
\* cache it could not parse goes on to the request and makes exactly one.
C16_CompleteDataOrTypedError ==
  \A c \in DOMAIN callers :
    /\ callers[c].pc = "returned" =>
         /\ callers[c].result \in {CompleteDataset} \cup TypedErrors
         /\ callers[c].read = "unreadable" => callers[c].requests = 1
         /\ callers[c].read = "loaded" =>
              callers[c].requests = 0 /\ callers[c].result = CompleteDataset
    /\ callers[c].read = "unreadable" => callers[c].pc \in {"request", "open", "write", "returned"}

C16_Witness ==
  /\ Len(callers) = 2
  /\ callers[1].pc = "returned"
  /\ callers[2].pc = "returned"
  /\ callers[1].seen = File([k \in 1..MaxChunks |-> k], 0)
  /\ callers[1].read = "unreadable"
  /\ callers[1].result = CompleteDataset
  /\ callers[2].written = "failed"
  /\ ~HoldsDataset(cache_file)

\* the cache as the call found it: there, younger than the window when
\* the call looked at the clock, and a full copy
CacheHit(caller) ==
  /\ caller.seen.exists
  /\ caller.checked_at - caller.seen.mtime < 3600
  /\ HoldsDataset(caller.seen)

\* C17 as first stated: a call returns the cached dataset without a
\* request exactly when the cache file exists, is younger than 3600 s and
\* parses; otherwise it makes exactly one request, and a successful
\* request rewrites the cache with the fetched dataset.
C17_FetchRewritesCache ==
  (Len(callers) = 1 /\ callers[1].pc = "returned") =>
    /\ CacheHit(callers[1]) <=> callers[1].requests = 0
    /\ CacheHit(callers[1]) => callers[1].result = CompleteDataset /\ cache_file = callers[1].seen
    /\ ~CacheHit(callers[1]) => callers[1].requests = 1
    /\ (~CacheHit(callers[1]) /\ callers[1].result = CompleteDataset) =>
         HoldsDataset(cache_file)

\* C17 (amended): as above, except that a successful request rewrites the
\* cache with the fetched dataset unless opening or writing the file
\* fails; then the fetched dataset is returned all the same and the file
\* is left as it was (open failed) or holds only the blocks written so far.
C17_FetchRewritesCacheUnlessWriteFails ==
  (Len(callers) = 1 /\ callers[1].pc = "returned") =>
    /\ CacheHit(callers[1]) <=> callers[1].requests = 0
    /\ CacheHit(callers[1]) => callers[1].result = CompleteDataset /\ cache_file = callers[1].seen
    /\ ~CacheHit(callers[1]) => callers[1].requests = 1
    /\ (~CacheHit(callers[1]) /\ callers[1].result = CompleteDataset) =>
         CASE callers[1].written = "closed" -> HoldsDataset(cache_file)
           [] callers[1].written = "failed" ->
                \/ cache_file = callers[1].seen
                \/ /\ cache_file.exists
                   /\ Len(cache_file.content) < MaxChunks
                   /\ \A k \in 1..Len(cache_file.content) : cache_file.content[k] = k
           [] OTHER -> FALSE
    /\ (~CacheHit(callers[1]) /\ callers[1].result \in TypedErrors) =>
         cache_file = callers[1].seen

C17_Witness ==
  /\ Len(callers) = 1
  /\ callers[1].pc = "returned"
  /\ callers[1].calls = 2
  /\ callers[1].seen = File([k \in 1..MaxChunks |-> k], 0)
  /\ callers[1].checked_at = 3600
  /\ callers[1].requests = 1
  /\ callers[1].written = "closed"
  /\ cache_file = File([k \in 1..MaxChunks |-> k], 3600)

\* ------------------------------------------------------------------------
\* C18
\* ------------------------------------------------------------------------
\* the two invocations are over and both returned
InvokedTwice == pc = "twice_done" /\ Len(results) = 2

\* the stub handed the checker an object that the first call wrote into
StubObjectChanged ==
  /\ Len(llm_calls) = 2
  /\ llm_calls[1].behaviour.kind = "response"
  /\ llm_calls[2].behaviour # llm_calls[1].behaviour

\* C18: a checker invoked twice with the same documents, a stub that
\* answers the same both times (the same answer object included) and a
\* data source that gives the same lookups returns the same content twice.
C18_TwiceSameResult ==
  InvokedTwice => results[2] = results[1]

C18_Witness ==
  /\ InvokedTwice
  /\ StubObjectChanged
  /\ llm_calls[1].rule = "timing"
  /\ llm_calls[1].behaviour.content.type = "list"
  /\ results[1]["status"] = "SYSTEM_ERROR"
  /\ results[2] = results[1]

\* ------------------------------------------------------------------------
\* C19
\* ------------------------------------------------------------------------
\* the texts the audit under way was started with
AuditTexts ==
  LET audit_request == Get(session_state, "audit_request", <<>>)
  IN IF DOMAIN audit_request # {}
     THEN [travel |-> audit_request.travel_input_data,
           ticket |-> audit_request.ticket_input_data]
     ELSE [travel |-> Get(session_state, "travel_input_data", BlankText),
           ticket |-> Get(session_state, "ticket_input_data", BlankText)]

FailsToParse(t) == JsonLoads(t).raised

Listed(errors, error) == \E k \in 1..Len(errors) : errors[k] = error

\* the audit is in the failed state and nothing of it ran or was stored
FailedState ==
  /\ pc = "failed"
  /\ llm_calls = <<>>
  /\ events = <<>>
  /\ results = <<>>
  /\ Get(session_state, "audit_report", JNone) = JNone
  /\ ~Get(session_state, "running_audit", FALSE)
  /\ ~Get(session_state, "audit_completed", FALSE)
  /\ Get(session_state, "audit_failed", FALSE)
  /\ Get(session_state, "json_errors", <<>>) # <<>>

\* C19: when the audit page runs with a document that does not parse, the
\* step that finds it ends in the failed state before any checker or
\* collaborator call: no report is stored, running_audit is cleared, and
\* the list of problems names each document that did not parse; nothing
\* runs while the audit stays failed.
C19_ParseFailureStopsAudit ==
  /\ [][(pc = "page" /\ Get(session_state, "running_audit", FALSE)
           /\ (FailsToParse(AuditTexts.travel) \/ FailsToParse(AuditTexts.ticket)))
          => /\ FailedState'
             /\ FailsToParse(AuditTexts.travel) =>
                  Listed(session_state'["json_errors"],
                         "Travel Approval JSON is invalid or empty")
             /\ FailsToParse(AuditTexts.ticket) =>
                  Listed(session_state'["json_errors"],
                         "Flight Ticket JSON is invalid or empty")]_vars
  /\ [](pc = "failed" => FailedState)

C19_Witness ==
  /\ pc = "failed"
  /\ "travel_input_data" \in DOMAIN session_state
  /\ FailsToParse(session_state["travel_input_data"])
  /\ ~FailsToParse(session_state["ticket_input_data"])
  /\ session_state["json_errors"] = <<"Travel Approval JSON is invalid or empty">>
  /\ llm_calls = <<>>

\* ------------------------------------------------------------------------
\* C20
\* ------------------------------------------------------------------------
TimedFlights == Segments(flight_reservations)

\* every departure and arrival lies in [travelBeginDate, travelEndDate]
AllWithinPeriod ==
  \A k \in 1..Len(TimedFlights) :
    /\ travel_approval.travelBeginDate <= TimedFlights[k].flight.departureDate
    /\ TimedFlights[k].flight.departureDate <= travel_approval.travelEndDate
    /\ travel_approval.travelBeginDate <= TimedFlights[k].flight.arrivalDate
    /\ TimedFlights[k].flight.arrivalDate <= travel_approval.travelEndDate

SomeDepartsEarly ==
  \E k \in 1..Len(TimedFlights) :
    TimedFlights[k].flight.departureDate < travel_approval.travelBeginDate

\* the verdict the claim gives for the documents of the call
VerdictAsClaimed ==
  /\ AllWithinPeriod =>
       /\ results[1]["status"] = "COMPLIANT"
       /\ results[1]["details"]["violations"] = <<>>
  /\ SomeDepartsEarly =>
       /\ results[1]["status"] = "NON_COMPLIANT"
       /\ \E v \in 1..Len(results[1]["details"]["violations"]) :
            results[1]["details"]["violations"][v].issue_type = "departure_too_early"

CollaboratorFollowedRules ==
  llm_calls[1].behaviour \in AbidingBehaviours(travel_approval, flight_reservations)

Ticketed == flight_reservations[1].passengers
Approved == travel_approval.passengerList

\* employeeId and name (whatever the case) are those of an approved passenger
MatchesApproved(p) ==
  \E a \in 1..Len(Approved) :
    /\ Approved[a].employeeId = p.employeeId
    /\ Lower(Approved[a].name) = Lower(p.name)
    /\ Lower(Approved[a].surname) = Lower(p.surname)

IdMatchesNone(p) == \A a \in 1..Len(Approved) : Approved[a].employeeId # p.employeeId

\* the violations of the result that are about passenger p
ViolationsAbout(p) ==
  {v \in 1..Len(results[1]["details"]["violations"]) :
     /\ results[1]["details"]["violations"][v].passenger_name = <<p.name, p.surname>>
     /\ results[1]["details"]["violations"][v].ticket_employee_id = p.employeeId}

IdentityVerdictAsClaimed ==
  /\ (\A k \in 1..Len(Ticketed) : MatchesApproved(Ticketed[k])) =>
       results[1]["status"] = "COMPLIANT"
  /\ \A k \in 1..Len(Ticketed) :
       IdMatchesNone(Ticketed[k]) =>
         /\ results[1]["status"] = "NON_COMPLIANT"
         /\ Cardinality(ViolationsAbout(Ticketed[k])) = 1
         /\ \A v \in ViolationsAbout(Ticketed[k]) :
              results[1]["details"]["violations"][v].issue_type
                \in {"unauthorized_passenger", "employee_id_mismatch"}

IdentityCollaboratorFollowedRules ==
  llm_calls[1].behaviour \in IdentityAbidingBehaviours(travel_approval, flight_reservations)

OnSunExpressAccount == flight_reservations[1].accountName = "SunExpress"

UsesOtherCarrier ==
  \E k \in 1..Len(flight_reservations[1].flights) :
    ~IsSunExpressFlight(flight_reservations[1].flights[k])

\* C22: check_route_compliance returns NON_COMPLIANT with at least one
\* violation when a reservation whose accountName is "SunExpress" contains a
\* segment flown on a carrier other than XQ, and returns COMPLIANT for a
\* reservation whose accountName is not "SunExpress" whatever carrier its
\* segments use.
C22_AccountScopedCarrierRule ==
  pc = "account_done" =>
    /\ (OnSunExpressAccount /\ UsesOtherCarrier) =>
         /\ results[1]["status"] = "NON_COMPLIANT"
         /\ Len(results[1]["details"]["violations"]) >= 1
    /\ ~OnSunExpressAccount => results[1]["status"] = "COMPLIANT"

\* ------------------------------------------------------------------------
\* C23
\* ------------------------------------------------------------------------
\* C23: the report summary is derived from the status counts: with
\* overall_status NON_COMPLIANT it contains "FAILED" and names the number of
\* NON_COMPLIANT results, with SYSTEM_ERROR it names the number of
\* system-error-class results, and with COMPLIANT it contains "PASSED".
C23_SummaryFromCounts ==
  pc = "done" =>
    /\ report.map.overall_status = "NON_COMPLIANT" =>
         /\ SummaryHeading(report.map.summary) = "FAILED"
         /\ report.map.summary.nums = <<non_compliant_count(report.map.results)>>
    /\ report.map.overall_status = "SYSTEM_ERROR" =>
         report.map.summary.nums = <<system_error_count(report.map.results)>>
    /\ report.map.overall_status = "COMPLIANT" =>
         SummaryHeading(report.map.summary) = "PASSED"

\* ------------------------------------------------------------------------
\* C24
\* ------------------------------------------------------------------------
LookupReturned == pc = "lookup_done" /\ ~analysis.raised

OriginInDataset ==
  /\ fetches[1].kind = "data"
  /\ Upper(events[1].origin_airport) \in DOMAIN fetches[1].data

OriginRoutes == Get(fetches[1].data[Upper(events[1].origin_airport)], "routes", <<>>)

ToDestination(route) == Get(route, "iata", "") = Upper(events[1].destination_airport)

CarriesXQ(route) ==
  \E c \in 1..Len(Get(route, "carriers", <<>>)) : Get(route, "carriers", <<>>)[c].iata = "XQ"

\* some entry of the origin's routes list leads to the destination on XQ
SomeEntryOnXQ ==
  /\ OriginInDataset
  /\ \E n \in 1..Len(OriginRoutes) : ToDestination(OriginRoutes[n]) /\ CarriesXQ(OriginRoutes[n])

\* the first entry that leads to the destination does so on XQ
FirstEntryOnXQ ==
  /\ OriginInDataset
  /\ \E n \in 1..Len(OriginRoutes) :
       /\ ToDestination(OriginRoutes[n]) /\ CarriesXQ(OriginRoutes[n])
       /\ \A j \in 1..(n - 1) : ~ToDestination(OriginRoutes[j])

FlagsOfLookup ==
  /\ analysis.value.origin_served = analysis.value.sunexpress_available
  /\ (fetches[1].kind = "data" /\ ~OriginInDataset) =>
       /\ ~analysis.value.sunexpress_available
       /\ ~analysis.value.origin_served
       /\ ~analysis.value.destination_served
       /\ analysis.value.api_success

DeclaredStatuses ==
  {"COMPLIANT", "NON_COMPLIANT", "WARNING", "UNKNOWN", "SYSTEM_ERROR",
   "json_parse_error", "llm_call_error"}

\* C25: the status of every result that a checker returns and that enters a
\* report is COMPLIANT, NON_COMPLIANT, WARNING, UNKNOWN, SYSTEM_ERROR,
\* json_parse_error or llm_call_error, whatever the collaborator answered.
C25_StatusIsDeclared ==
  pc = "done" =>
    \A k \in 1..Len(report.map.results) :
      report.map.results[k]["status"] \in DeclaredStatuses

\* ------------------------------------------------------------------------
\* C26
\* ------------------------------------------------------------------------
\* C26: a report with overall_status COMPLIANT (summary "PASSED: All
\* compliance rules satisfied") holds three per-rule results that each have
\* status COMPLIANT.
C26_CompliantReportAllCompliant ==
  (pc = "done" /\ report.map.overall_status = "COMPLIANT") =>
    /\ SummaryHeading(report.map.summary) = "PASSED"
    /\ Len(report.map.results) = 3
    /\ \A k \in 1..3 : report.map.results[k]["status"] = "COMPLIANT"

\* ------------------------------------------------------------------------
\* C27
\* ------------------------------------------------------------------------
AnalysisReturned == pc = "route_done" /\ ~analysis.raised

FailedLookups == {k \in 1..Len(Segs) : LookupFailedAt(k)}

\* C27: a result analyze_route_compliance_with_api returns is NON_COMPLIANT
\* iff details.violations is non-empty, UNKNOWN iff violations is empty and
\* a lookup failed, COMPLIANT iff violations is empty and no lookup failed;
\* details.data_errors and details.note are set exactly when a lookup
\* failed, with one data_errors entry per failed segment.
C27_RouteResultConsistent ==
  AnalysisReturned =>
    LET status == analysis.value["status"]
        details == analysis.value["details"]
    IN /\ status = "NON_COMPLIANT" <=> details["violations"] # <<>>
       /\ status = "UNKNOWN" <=> (details["violations"] = <<>> /\ FailedLookups # {})
       /\ status = "COMPLIANT" <=> (details["violations"] = <<>> /\ FailedLookups = {})
       /\ details["data_errors"] # JNone <=> FailedLookups # {}
       /\ details["note"] # JNone <=> FailedLookups # {}
       /\ FailedLookups # {} =>
            /\ details["data_errors"].type = "list"
            /\ Len(details["data_errors"].items) = Cardinality(FailedLookups)
            /\ ReportedDataErrors(analysis.value) = ExpectedDataErrors

C27_Witness ==
  /\ AnalysisReturned
  /\ analysis.value["status"] = "NON_COMPLIANT"
  /\ Len(analysis.value["details"]["violations"]) = 1
  /\ Cardinality(FailedLookups) = 1
  /\ Len(analysis.value["details"]["data_errors"].items) = 1

\* ------------------------------------------------------------------------
\* C28
\* ------------------------------------------------------------------------
\* an audit was started from the page with two non-blank texts that parse
AuditStarted ==
  /\ pc = "page"
  /\ Get(session_state, "running_audit", FALSE)
  /\ ~IsBlank(AuditTexts.travel) /\ ~IsBlank(AuditTexts.ticket)
  /\ ~FailsToParse(AuditTexts.travel) /\ ~FailsToParse(AuditTexts.ticket)

AuditSettled ==
  \/ /\ Get(session_state, "audit_completed", FALSE)
     /\ Get(session_state, "audit_report", JNone) # JNone
  \/ /\ Get(session_state, "audit_failed", FALSE)
     /\ Get(session_state, "json_errors", <<>>) # <<>>
  \/ ~Get(session_state, "running_audit", FALSE)

\* C28: every audit started from the page with two non-blank texts that
\* parse as JSON eventually reaches audit_completed with a stored report, or
\* audit_failed with a list of problems, or has running_audit cleared.
C28_AuditSettles == AuditStarted ~> AuditSettled

\* ------------------------------------------------------------------------
\* C29
\* ------------------------------------------------------------------------
FlagsSet ==
  {flag \in {"running_audit", "audit_failed", "audit_completed"} :
     Get(session_state, flag, FALSE)}

\* C29: in every reachable session state at most one of running_audit,
\* audit_failed and audit_completed is true, and audit_completed is true
\* only while a report is stored in audit_report, across any sequence of
\* run, retry, reset and completion actions.
C29_OneFlagAtATime ==
  /\ Cardinality(FlagsSet) <= 1
  /\ Get(session_state, "audit_completed", FALSE) =>
       Get(session_state, "audit_report", JNone) # JNone

C29_Witness ==
  /\ pc = "completed"
  /\ FlagsSet = {"audit_completed"}
  /\ Get(session_state, "audit_report", JNone) # JNone
  /\ Get(session_state, "json_errors", <<"none">>) = <<>>

\* ------------------------------------------------------------------------
\* C30
\* ------------------------------------------------------------------------
\* the call found a cache file that was past the freshness window when it
\* looked at the clock
FoundStaleCache(caller) ==
  /\ caller.seen.exists
  /\ caller.checked_at - caller.seen.mtime >= 3600

RequestFailed(caller) == caller.requests = 1 /\ caller.result.kind = "error"

\* C30: a call whose request fails returns a typed error and leaves the
\* cache file as it found it; and a call that finds the cache file older
\* than the freshness window never returns its content: it reads nothing
\* from it and returns what its one request gave, the typed error when the
\* request fails.
C30_FailedFetchLeavesCacheStaleNeverServed ==
  (Len(callers) = 1 /\ callers[1].pc = "returned") =>
    /\ RequestFailed(callers[1]) =>
         /\ callers[1].result \in TypedErrors
         /\ callers[1].written = "none"
         /\ cache_file = callers[1].seen
    /\ FoundStaleCache(callers[1]) =>
         /\ callers[1].read = "none"
         /\ callers[1].requests = 1
         /\ callers[1].result \in TypedErrors \/ callers[1].written # "none"

C30_Witness ==
  /\ Len(callers) = 1
  /\ callers[1].pc = "returned"
  /\ FoundStaleCache(callers[1])
  /\ HoldsDataset(callers[1].seen)
  /\ RequestFailed(callers[1])
  /\ cache_file = callers[1].seen

====
